---------------------------- MODULE Spec2Model ----------------------------
(***************************************************************************)
(* RLM-Trans v2: the translation state (rlm_state.py), the REPL that owns  *)
(* it (repl_environment_v2.py), the verifier (verifier.py) and the root    *)
(* orchestrator's round loop (root_orchestrator.py).                       *)
(*                                                                         *)
(* Python dicts are functions whose DOMAIN is the set of keys, Python      *)
(* lists are sequences (list index i is sequence position i+1), and text   *)
(* is a sequence of one-character strings.                                 *)
(***************************************************************************)
EXTENDS Integers, Sequences, FiniteSets, TLC

VARIABLES
    \* ---- TranslationState (rlm_state.py:104-149)
    chunk_history,        \* List[str]: originals that entered the pipeline
    translation_history,  \* List[str]: translations, parallel to chunk_history
    glossary,             \* Dict[str, TermEntry]
    term_candidates,      \* Dict[str, str]
    confirmed_terms,      \* Dict[str, str]
    hard_glossary,        \* Dict[str, str]
    soft_glossary,        \* Dict[str, str]
    proper_nouns,         \* Dict[str, str]
    reference_signs,      \* Dict[str, str]
    technical_terms,      \* Dict[str, str]
    history_summaries,    \* List[str]
    total_chunks,         \* int
    completed_chunks,     \* int
    current_chunk_index,  \* int
    style_guide,          \* StyleGuide: tone, forbidden_words, forbidden_phrases
    \* ---- QualityFlags (rlm_state.py:71-79)
    qf_completed_chunks,  \* quality_flags.completed_chunks
    failed_chunks,        \* quality_flags.failed_chunks
    retry_count,          \* quality_flags.retry_count: Dict[str, int]
    error_chunks,         \* quality_flags.error_chunks: List[(index, type, message)]
    \* ---- EnhancedREPL (repl_environment_v2.py:37-56)
    chunks,               \* _chunks: the texts of the document's chunks
    \* ---- RootOrchestrator (root_orchestrator.py:21-62, 412-419)
    has_repl,             \* self.repl is not None
    max_retries,          \* constructor argument, fixed for the orchestrator's life
    pc,                   \* "idle" | "running" | "returned": run_full_translation;
                          \* "terminating" | "terminated": its thread being ended
    iteration,            \* local of run_full_translation
    success_count,        \* local of run_full_translation
    error_count,          \* local of run_full_translation
    \* ---- history variables (observations, never read by the program)
    sub_calls,            \* this run's translate_chunk calls: <<chunk_index, chunk_text>>
    committed,            \* chunk indices the rounds of this run saved, in order
    added,                \* every summary given to add_history_summary since the last clear
    last,                 \* "init", "reset" right after EnhancedREPL.reset, else "op"
    obs                   \* the last operation's arguments, intermediate values and result

stateVars == <<chunk_history, translation_history, glossary, term_candidates,
               confirmed_terms, hard_glossary, soft_glossary, proper_nouns,
               reference_signs, technical_terms, history_summaries, total_chunks,
               completed_chunks, current_chunk_index, qf_completed_chunks,
               failed_chunks, retry_count, error_chunks, style_guide>>

termVars == <<term_candidates, confirmed_terms, hard_glossary, soft_glossary,
              proper_nouns, reference_signs, technical_terms>>

chunkVars == <<chunk_history, translation_history, total_chunks, completed_chunks,
               current_chunk_index, qf_completed_chunks>>

qualityVars == <<failed_chunks, retry_count, error_chunks>>

runVars == <<has_repl, max_retries, pc, iteration, success_count, error_count>>

ghostVars == <<sub_calls, committed>>

vars == <<stateVars, chunks, runVars, ghostVars, added, last, obs>>

-----------------------------------------------------------------------------
(* Bounds of the model *)

\* longest document, in chunks
MaxChunks == 2
\* longest chunk_history that a direct add_chunk call may extend
MaxHist == 2
\* longest error_chunks that a direct _save_translation(quality_flag=...) may extend
MaxErrors == 1
\* number of add_history_summary calls followed
MaxAdds == 7
\* rounds after which a run of the model is cut off (never reached by the code's loop)
IterCap == 14

(* Program constants *)

\* TranslationState.max_history_summaries
max_history_summaries == 5
\* run_full_translation: max_iterations = total_chunks + 10
SafetyMargin == 10
\* _rule_based_validation: sentence check only beyond this length
SentenceMinLen == 50
\* _rule_based_validation: length floor only beyond this original length
LengthMinOrig == 100

-----------------------------------------------------------------------------
(* Python dict and list helpers *)

EmptyDict == [k \in {} |-> k]

Put(d, k, v) == [x \in (DOMAIN d) \cup {k} |-> IF x = k THEN v ELSE d[x]]

Del(d, k) == [x \in (DOMAIN d) \ {k} |-> d[x]]

\* lst[-n:] for n >= 1
LastN(lst, n) == IF Len(lst) <= n THEN lst ELSE SubSeq(lst, Len(lst) - n + 1, Len(lst))

\* lst[:n]
FirstN(lst, n) == IF Len(lst) <= n THEN lst ELSE SubSeq(lst, 1, n)

\* the None that _select_next_chunk returns for "no chunk left"
NoChunk == -1

\* "abc".endswith("bc")
EndsWith(s, suffix) ==
    /\ Len(s) >= Len(suffix)
    /\ SubSeq(s, Len(s) - Len(suffix) + 1, Len(s)) = suffix

IsSpace(c) == c \in {" ", "\n", "\t", "\r"}

RECURSIVE RStrip(_)
RStrip(s) ==
    IF s = <<>> THEN s
    ELSE IF IsSpace(s[Len(s)]) THEN RStrip(SubSeq(s, 1, Len(s) - 1)) ELSE s

RECURSIVE LStrip(_)
LStrip(s) ==
    IF s = <<>> THEN s
    ELSE IF IsSpace(s[1]) THEN LStrip(SubSeq(s, 2, Len(s))) ELSE s

Strip(s) == LStrip(RStrip(s))

-----------------------------------------------------------------------------
(* Input domains *)

Sources == {"s1", "s2"}
Targets == {"t1", "t2"}

\* sources the single-term mutators are called on (the dict-taking operations
\* propose_terms and set_glossary range over all of Sources)
MutatorSources == {"s1"}

\* dicts that propose_terms / set_glossary may be given
TermDicts == UNION {[D -> Targets] : D \in SUBSET Sources}

\* texts of source chunks and of translations: sequences of characters
ChunkTexts == {<<"x">>, <<"y">>}

\* what the provider may send back as a translation: complete, complete, truncated, empty
Translations == {<<"a", ".">>, <<"b", ".">>, <<"a", ".", ".", ".">>, <<>>}

\* documents: lists of at most MaxChunks chunks
Documents == UNION {[1..n -> ChunkTexts] : n \in 0..MaxChunks}

\* orchestrator constructor: max_retries (default 2)
MaxRetriesChoices == {0, 2}

-----------------------------------------------------------------------------
(* TranslationState: a fresh object, and reset() *)

\* StyleGuide(): the dataclass defaults
DefaultStyleGuide == [tone |-> "neutral", forbidden_words |-> <<>>, forbidden_phrases |-> <<>>]

\* no operation observed
NoObs == [op |-> "none"]

\* the dataclass defaults
FreshState ==
    /\ chunk_history' = <<>>
    /\ translation_history' = <<>>
    /\ glossary' = EmptyDict
    /\ term_candidates' = EmptyDict
    /\ confirmed_terms' = EmptyDict
    /\ hard_glossary' = EmptyDict
    /\ soft_glossary' = EmptyDict
    /\ proper_nouns' = EmptyDict
    /\ reference_signs' = EmptyDict
    /\ technical_terms' = EmptyDict
    /\ history_summaries' = <<>>
    /\ total_chunks' = 0
    /\ completed_chunks' = 0
    /\ current_chunk_index' = 0
    /\ qf_completed_chunks' = 0
    /\ failed_chunks' = 0
    /\ retry_count' = EmptyDict
    /\ error_chunks' = <<>>
    /\ style_guide' = DefaultStyleGuide

\* TranslationState.reset: everything it assigns or clears; total_chunks and the
\* style guide are not among them
StateReset ==
    /\ chunk_history' = <<>>
    /\ translation_history' = <<>>
    /\ glossary' = EmptyDict
    /\ history_summaries' = <<>>
    /\ qf_completed_chunks' = 0
    /\ failed_chunks' = 0
    /\ retry_count' = EmptyDict
    /\ error_chunks' = <<>>
    /\ current_chunk_index' = 0
    /\ completed_chunks' = 0
    /\ term_candidates' = EmptyDict
    /\ confirmed_terms' = EmptyDict
    /\ hard_glossary' = EmptyDict
    /\ soft_glossary' = EmptyDict
    /\ proper_nouns' = EmptyDict
    /\ reference_signs' = EmptyDict
    /\ technical_terms' = EmptyDict
    /\ UNCHANGED <<total_chunks, style_guide>>

\* the program's objects right after construction
InitState ==
    /\ chunk_history = <<>>
    /\ translation_history = <<>>
    /\ glossary = EmptyDict
    /\ term_candidates = EmptyDict
    /\ confirmed_terms = EmptyDict
    /\ hard_glossary = EmptyDict
    /\ soft_glossary = EmptyDict
    /\ proper_nouns = EmptyDict
    /\ reference_signs = EmptyDict
    /\ technical_terms = EmptyDict
    /\ history_summaries = <<>>
    /\ total_chunks = 0
    /\ completed_chunks = 0
    /\ current_chunk_index = 0
    /\ qf_completed_chunks = 0
    /\ failed_chunks = 0
    /\ retry_count = EmptyDict
    /\ error_chunks = <<>>
    /\ chunks = <<>>
    /\ has_repl = FALSE
    /\ max_retries \in MaxRetriesChoices
    /\ pc = "idle"
    /\ iteration = 0
    /\ success_count = 0
    /\ error_count = 0
    /\ sub_calls = <<>>
    /\ committed = <<>>
    /\ added = <<>>
    /\ last = "init"
    /\ style_guide = DefaultStyleGuide

Init ==
    /\ InitState
    /\ obs = NoObs

-----------------------------------------------------------------------------
(* TranslationState: term management *)

\* propose_terms: a candidate is stored unless its source is already confirmed
ProposedCandidates(cands, confirmed, proposal) ==
    [s \in (DOMAIN cands) \cup {x \in DOMAIN proposal : x \notin DOMAIN confirmed} |->
        IF s \in DOMAIN proposal /\ s \notin DOMAIN confirmed THEN proposal[s] ELSE cands[s]]

ProposeTerms(proposal) ==
    /\ term_candidates' = ProposedCandidates(term_candidates, confirmed_terms, proposal)
    /\ last' = "op"
    /\ obs' = NoObs
    /\ UNCHANGED style_guide
    /\ UNCHANGED <<confirmed_terms, hard_glossary, soft_glossary, proper_nouns,
                   reference_signs, technical_terms>>
    /\ UNCHANGED <<chunkVars, qualityVars, glossary, history_summaries, chunks,
                   runVars, ghostVars, added>>

\* an update that overwrites whatever force says
TermsAfterForcedUpdate(cands, confirmed, source, target, force) ==
    [confirmed |-> Put(confirmed, source, target), candidates |-> Del(cands, source)]

\* update_glossary: the confirmed terms and the candidates it leaves
TermsAfterUpdate(cands, confirmed, source, target, force) ==
    IF force \/ source \notin DOMAIN confirmed
    THEN [confirmed |-> Put(confirmed, source, target), candidates |-> Del(cands, source)]
    ELSE [confirmed |-> confirmed, candidates |-> cands]

UpdateGlossary(source, target, force) ==
    /\ LET after == TermsAfterUpdate(term_candidates, confirmed_terms, source, target, force)
       IN /\ confirmed_terms' = after.confirmed
          /\ term_candidates' = after.candidates
    /\ last' = "op"
    /\ obs' = [op |-> "update_glossary", source |-> source, target |-> target,
               force |-> force, candidates |-> term_candidates,
               confirmed |-> confirmed_terms]
    /\ UNCHANGED style_guide
    /\ UNCHANGED <<hard_glossary, soft_glossary, proper_nouns, reference_signs,
                   technical_terms>>
    /\ UNCHANGED <<chunkVars, qualityVars, glossary, history_summaries, chunks,
                   runVars, ghostVars, added>>

\* the two assignments of add_hard_term
HardTermEffect(source, target) ==
    /\ hard_glossary' = Put(hard_glossary, source, target)
    /\ confirmed_terms' = Put(confirmed_terms, source, target)

AddHardTerm(source, target) ==
    /\ HardTermEffect(source, target)
    /\ last' = "op"
    /\ obs' = NoObs
    /\ UNCHANGED style_guide
    /\ UNCHANGED <<term_candidates, soft_glossary, proper_nouns, reference_signs,
                   technical_terms>>
    /\ UNCHANGED <<chunkVars, qualityVars, glossary, history_summaries, chunks,
                   runVars, ghostVars, added>>

AddSoftTerm(source, target) ==
    /\ soft_glossary' = Put(soft_glossary, source, target)
    /\ last' = "op"
    /\ obs' = NoObs
    /\ UNCHANGED style_guide
    /\ UNCHANGED <<term_candidates, confirmed_terms, hard_glossary, proper_nouns,
                   reference_signs, technical_terms>>
    /\ UNCHANGED <<chunkVars, qualityVars, glossary, history_summaries, chunks,
                   runVars, ghostVars, added>>

AddProperNoun(source, target) ==
    /\ proper_nouns' = Put(proper_nouns, source, target)
    /\ HardTermEffect(source, target)
    /\ last' = "op"
    /\ obs' = NoObs
    /\ UNCHANGED style_guide
    /\ UNCHANGED <<term_candidates, soft_glossary, reference_signs, technical_terms>>
    /\ UNCHANGED <<chunkVars, qualityVars, glossary, history_summaries, chunks,
                   runVars, ghostVars, added>>

AddReferenceSign(sign, meaning) ==
    /\ reference_signs' = Put(reference_signs, sign, meaning)
    /\ HardTermEffect(sign, meaning)
    /\ last' = "op"
    /\ obs' = NoObs
    /\ UNCHANGED style_guide
    /\ UNCHANGED <<term_candidates, soft_glossary, proper_nouns, technical_terms>>
    /\ UNCHANGED <<chunkVars, qualityVars, glossary, history_summaries, chunks,
                   runVars, ghostVars, added>>

AddTechnicalTerm(source, target, is_hard) ==
    /\ technical_terms' = Put(technical_terms, source, target)
    /\ IF is_hard
       THEN HardTermEffect(source, target) /\ UNCHANGED soft_glossary
       ELSE /\ soft_glossary' = Put(soft_glossary, source, target)
            /\ UNCHANGED <<hard_glossary, confirmed_terms>>
    /\ last' = "op"
    /\ obs' = NoObs
    /\ UNCHANGED style_guide
    /\ UNCHANGED <<term_candidates, proper_nouns, reference_signs>>
    /\ UNCHANGED <<chunkVars, qualityVars, glossary, history_summaries, chunks,
                   runVars, ghostVars, added>>

\* a dict updated with every pair of another (repeated d[k] = v)
Merged(d, g) == [x \in (DOMAIN d) \cup (DOMAIN g) |-> IF x \in DOMAIN g THEN g[x] ELSE d[x]]

\* RootOrchestrator.set_glossary: add_hard_term for every pair, when a REPL exists
SetGlossary(g) ==
    /\ pc \notin {"running", "terminating"}
    /\ IF has_repl /\ g # EmptyDict
       THEN /\ hard_glossary' = Merged(hard_glossary, g)
            /\ confirmed_terms' = Merged(confirmed_terms, g)
       ELSE UNCHANGED <<hard_glossary, confirmed_terms>>
    /\ last' = "op"
    /\ obs' = NoObs
    /\ UNCHANGED style_guide
    /\ UNCHANGED <<term_candidates, soft_glossary, proper_nouns, reference_signs,
                   technical_terms>>
    /\ UNCHANGED <<chunkVars, qualityVars, glossary, history_summaries, chunks,
                   runVars, ghostVars, added>>

-----------------------------------------------------------------------------
(* RootOrchestrator.set_text and EnhancedREPL.reset *)

\* a new EnhancedREPL with a new TranslationState, then set_original_text
SetText(doc) ==
    /\ pc \notin {"running", "terminating"}
    /\ FreshState!1 /\ FreshState!2 /\ FreshState!3 /\ FreshState!4 /\ FreshState!5
    /\ FreshState!6 /\ FreshState!7 /\ FreshState!8 /\ FreshState!9 /\ FreshState!10
    /\ FreshState!11 /\ FreshState!13 /\ FreshState!14 /\ FreshState!15
    /\ FreshState!16 /\ FreshState!17 /\ FreshState!18 /\ FreshState!19
    /\ total_chunks' = Len(doc)
    /\ chunks' = doc
    /\ has_repl' = TRUE
    /\ pc' = "idle"
    /\ iteration' = 0
    /\ success_count' = 0
    /\ error_count' = 0
    /\ sub_calls' = <<>>
    /\ committed' = <<>>
    /\ added' = <<>>
    /\ last' = "op"
    /\ obs' = NoObs
    /\ UNCHANGED max_retries

\* EnhancedREPL.reset: state.reset(), then _chunks = []
Reset ==
    /\ pc \notin {"running", "terminating"}
    /\ has_repl
    /\ StateReset
    /\ chunks' = <<>>
    /\ pc' = "idle"
    /\ added' = <<>>
    /\ last' = "reset"
    /\ obs' = NoObs
    /\ UNCHANGED <<has_repl, max_retries, iteration, success_count, error_count, ghostVars>>

-----------------------------------------------------------------------------
(* Specification of the term mutators *)

NextTerms ==
    \/ SetText(<<>>)
    \/ \E g \in TermDicts : SetGlossary(g)
    \/ \E p \in TermDicts : ProposeTerms(p)
    \/ \E s \in MutatorSources, t \in Targets, f \in BOOLEAN : UpdateGlossary(s, t, f)
    \/ \E s \in MutatorSources, t \in Targets : AddHardTerm(s, t)
    \/ \E s \in MutatorSources, t \in Targets : AddSoftTerm(s, t)
    \/ \E s \in MutatorSources, t \in Targets : AddProperNoun(s, t)
    \/ \E s \in MutatorSources, t \in Targets : AddReferenceSign(s, t)
    \/ \E s \in MutatorSources, t \in Targets, h \in BOOLEAN : AddTechnicalTerm(s, t, h)
    \/ Reset

SpecTerms == Init /\ [][NextTerms]_vars

-----------------------------------------------------------------------------
(* Text helpers of the verifier *)

\* str.lower, on the letters the model's texts are written with
LowerChar(c) == IF c = "A" THEN "a" ELSE IF c = "B" THEN "b" ELSE c

Lower(s) == [i \in 1..Len(s) |-> LowerChar(s[i])]

\* sub in text
Contains(text, sub) ==
    \E i \in 0..(Len(text) - Len(sub)) : SubSeq(text, i + 1, i + Len(sub)) = sub

\* len(text.split('\n')): one more than the number of line feeds
RECURSIVE SplitLinesCount(_)
SplitLinesCount(s) ==
    IF s = <<>> THEN 1
    ELSE (IF Head(s) = "\n" THEN 1 ELSE 0) + SplitLinesCount(Tail(s))

-----------------------------------------------------------------------------
(* Context package (rlm_state.py get_context_package, context_package.py) *)

\* TranslationState.get_context_package: the style guide goes under the key
\* "style_guide", with its tone and forbidden_words
GetContextPackage ==
    [hard_glossary |-> hard_glossary,
     soft_glossary |-> soft_glossary,
     proper_nouns |-> proper_nouns,
     reference_signs |-> reference_signs,
     technical_terms |-> technical_terms,
     confirmed_terms |-> confirmed_terms,
     style_guide |-> [tone |-> style_guide.tone,
                      forbidden_words |-> style_guide.forbidden_words],
     history_summaries |-> LastN(history_summaries, 3)]

\* build_context_package: the state's package, extended with the chunk's keys
\* (th, ch: the histories at the time of the call)
BuildContextPackage(ch, th, current_chunk_text, chunk_index) ==
    [rules |-> <<"Translate preserving meaning and intent",
                 "Use natural expressions in target language",
                 "Maintain consistent terminology throughout">>,
     local_context |-> [recent_translations |-> LastN(LastN(th, 5), 3),
                        recent_originals |-> LastN(LastN(ch, 5), 3),
                        context_summaries |-> LastN(history_summaries, 5)],
     chunk |-> current_chunk_text,
     chunk_index |-> chunk_index,
     document_type |-> "general"] @@ GetContextPackage

-----------------------------------------------------------------------------
(* Verifier (verifier.py) *)

\* orchestrator constructor defaults for the preset and the two toggles
preset_type == "general"
check_sentence == TRUE
check_length == TRUE

\* the tuple sentence_endings of _rule_based_validation; KO1..KO3 stand for the
\* Hangul syllables of its three polite endings, FW_* for the full-width marks
SentenceEndings ==
    {<<".">>, <<"!">>, <<"?">>, <<"FW_STOP">>, <<"FW_EXCL">>, <<"FW_QUES">>,
     <<"KO1", ".">>, <<"KO2", ".">>, <<"KO3", "KO1", ".">>}

\* ValidationResult.add_error: one entry of result.errors
HardError(type, message) == [type |-> type, message |-> message, severity |-> "hard"]

\* a truncation test that looks at the raw end of the text
TruncatedRawEnd(translation) ==
    \/ EndsWith(translation, <<".", ".", ".">>)
    \/ EndsWith(translation, <<"ELLIPSIS">>)

\* the two truncation markers: three dots, or the one-character ellipsis
Truncated(translation) ==
    \/ EndsWith(RStrip(translation), <<".", ".", ".">>)
    \/ EndsWith(RStrip(translation), <<"ELLIPSIS">>)

\* _validate_subtitle_format: an error when the split yields no line at all
ValidateSubtitleFormat(translation) ==
    IF SplitLinesCount(Strip(translation)) = 0
    THEN <<HardError("format", "Subtitle has no lines")>>
    ELSE <<>>

\* _check_forbidden_content: the words are looked up under context["style"]
RECURSIVE ForbiddenErrors(_, _)
ForbiddenErrors(words, translation) ==
    IF words = <<>> THEN <<>>
    ELSE (IF Contains(Lower(translation), Lower(Head(words)))
          THEN <<HardError("forbidden", "Contains forbidden word")>> ELSE <<>>)
         \o ForbiddenErrors(Tail(words), translation)

CheckForbiddenContent(translation, context) ==
    LET style == IF "style" \in DOMAIN context THEN context["style"] ELSE EmptyDict
        forbidden_words == IF "forbidden_words" \in DOMAIN style
                           THEN style["forbidden_words"] ELSE <<>>
    IN ForbiddenErrors(forbidden_words, translation)

\* _check_length_constraints: its one error
CheckLengthConstraints(translation, original) ==
    IF Len(translation) = 0
    THEN <<HardError("completion", "Translation is empty despite original having content")>>
    ELSE <<>>

\* the sentence rule measured on the text as received
SentenceErrorOnRawLength(translation, chkSentence) ==
    IF /\ chkSentence
       /\ ~(\E e \in SentenceEndings : EndsWith(RStrip(translation), e))
       /\ Len(translation) > SentenceMinLen
    THEN <<HardError("completion", "Translation does not end with complete sentence")>>
    ELSE <<>>

\* the sentence rule of _rule_based_validation: the length is that of the text
\* without its trailing whitespace
SentenceError(translation, chkSentence) ==
    IF /\ chkSentence
       /\ ~(\E e \in SentenceEndings : EndsWith(RStrip(translation), e))
       /\ Len(RStrip(translation)) > SentenceMinLen
    THEN <<HardError("completion", "Translation does not end with complete sentence")>>
    ELSE <<>>

\* the errors _rule_based_validation adds, in order (warnings change neither valid
\* nor repair_type and are left out; the patent and paper presets only warn)
RuleBasedErrors(translation, original, context, preset, chkSentence, chkLength) ==
    IF translation = <<>> \/ Strip(translation) = <<>>
    THEN <<HardError("completion", "Translation is empty")>>
    ELSE (IF Truncated(translation)
          THEN <<HardError("completion", "Translation appears truncated")>> ELSE <<>>)
         \o SentenceError(translation, chkSentence)
         \o (IF /\ chkLength
                /\ Len(Strip(original)) > LengthMinOrig
                /\ 2 * Len(Strip(translation)) < Len(Strip(original))
             THEN <<HardError("completion", "Translation too short")>> ELSE <<>>)
         \o (IF preset = "subtitle" THEN ValidateSubtitleFormat(translation) ELSE <<>>)
         \o CheckForbiddenContent(translation, context)
         \o CheckLengthConstraints(translation, original)

\* ValidationResult.get_hard_error_types
RECURSIVE GetHardErrorTypes(_)
GetHardErrorTypes(errors) ==
    IF errors = <<>> THEN <<>>
    ELSE (IF Head(errors).severity = "hard" THEN <<Head(errors).type>> ELSE <<>>)
         \o GetHardErrorTypes(Tail(errors))

\* a selection in which a completion error outranks a format error
DetermineRepairCompletionFirst(hard_errors) ==
    LET kinds == {hard_errors[i] : i \in DOMAIN hard_errors} IN
    IF hard_errors = <<>> THEN "none"
    ELSE IF "forbidden" \in kinds THEN "template_reinforce"
    ELSE IF "completion" \in kinds THEN "re_translate"
    ELSE IF "format" \in kinds THEN "template_reinforce"
    ELSE "re_translate"

\* _determine_repair over the hard error kinds ("none": repair_type stays None)
DetermineRepair(hard_errors) ==
    LET kinds == {hard_errors[i] : i \in DOMAIN hard_errors} IN
    IF hard_errors = <<>> THEN "none"
    ELSE IF "forbidden" \in kinds THEN "template_reinforce"
    ELSE IF "format" \in kinds THEN "template_reinforce"
    ELSE IF "completion" \in kinds THEN "re_translate"
    ELSE "re_translate"

\* Verifier.validate (LLM validation off: it only ever adds a warning)
Validate(translation, original, context, preset, chkSentence, chkLength) ==
    LET errs == RuleBasedErrors(translation, original, context, preset,
                                chkSentence, chkLength) IN
    [valid |-> errs = <<>>,
     errors |-> errs,
     repair_type |-> IF errs = <<>> THEN "none"
                     ELSE DetermineRepair(GetHardErrorTypes(errs))]

-----------------------------------------------------------------------------
(* TranslationState: history, summaries, counters *)

\* update_chunk: in-place replacement, ignored when the index is out of range
UpdatedChunk(th, chunk_index, translation) ==
    IF 0 <= chunk_index /\ chunk_index < Len(th)
    THEN [th EXCEPT ![chunk_index + 1] = translation]
    ELSE th

\* add_history_summary whose slice keeps the first entries instead of the last
SummariesAfterAddKeepFirst(hs, summary) ==
    LET appended == Append(hs, summary) IN
    IF Len(appended) > max_history_summaries
    THEN FirstN(appended, max_history_summaries)
    ELSE appended

\* add_history_summary: append, then keep the last max_history_summaries
SummariesAfterAdd(hs, summary) ==
    LET appended == Append(hs, summary) IN
    IF Len(appended) > max_history_summaries
    THEN LastN(appended, max_history_summaries)
    ELSE appended

\* hasattr(retry_count, flag_type): a dict has no attribute named like a flag type
DictHasAttr(flag_type) == flag_type \in {"clear", "copy", "get", "items", "keys", "pop",
                                         "popitem", "setdefault", "update", "values"}

\* increment_retry_count
RetryCountAfterIncrement(rc, flag_type) ==
    LET base == IF ~DictHasAttr(flag_type) THEN Put(rc, flag_type, 0) ELSE rc IN
    Put(base, flag_type, base[flag_type] + 1)

-----------------------------------------------------------------------------
(* EnhancedREPL: chunk selection and retrieval *)

\* the characters \w matches, among those of the model's texts
WordChars == {"a", "b", "x", "y", "A", "B"}

\* re.findall(r'\b\w+\b', text) as a set: the maximal runs of word characters;
\* word is the run being read
RECURSIVE WordsFrom(_, _, _)
WordsFrom(text, i, word) ==
    IF i > Len(text) THEN (IF word = <<>> THEN {} ELSE {word})
    ELSE IF text[i] \in WordChars THEN WordsFrom(text, i + 1, Append(word, text[i]))
    ELSE (IF word = <<>> THEN {} ELSE {word}) \cup WordsFrom(text, i + 1, <<>>)

\* _compute_similarity as the fraction <<intersection, union>>; <<0, 1>> is 0.0
ComputeSimilarity(prev_chunk, cur_chunk) ==
    LET words1 == WordsFrom(Lower(prev_chunk), 1, <<>>)
        words2 == WordsFrom(Lower(cur_chunk), 1, <<>>)
    IN IF words1 = {} \/ words2 = {} THEN <<0, 1>>
       ELSE <<Cardinality(words1 \cap words2), Cardinality(words1 \cup words2)>>

\* sim > best_sim on fractions with positive denominators
GreaterSim(sim, best_sim) == sim[1] * best_sim[2] > best_sim[1] * sim[2]

\* the for loop of the adaptive branch over chunk_indices[i..]: the position of
\* the best chunk in chunk_indices
RECURSIVE BestPosition(_, _, _, _, _, _)
BestPosition(prev_chunk, cks, cci, i, best_idx, best_sim) ==
    IF cci + i >= Len(cks) THEN best_idx
    ELSE LET sim == ComputeSimilarity(prev_chunk, cks[cci + i + 1])
         IN IF GreaterSim(sim, best_sim)
            THEN BestPosition(prev_chunk, cks, cci, i + 1, i, sim)
            ELSE BestPosition(prev_chunk, cks, cci, i + 1, best_idx, best_sim)

\* _select_next_chunk on the state st: the index returned (NoChunk for None), or
\* raised when chunk_history[current_chunk_index] is past the end of the list
SelectNextChunk(st, cks, strategy) ==
    IF st.cci >= Len(cks) THEN [raised |-> FALSE, index |-> NoChunk]
    ELSE IF strategy = "adaptive" /\ Len(cks) - st.cci >= 2
    THEN IF ~(st.cci < Len(st.ch)) THEN [raised |-> TRUE, index |-> NoChunk]
         ELSE [raised |-> FALSE,
               index |-> st.cci + BestPosition(IF st.th = <<>> THEN <<>>
                                               ELSE st.th[Len(st.th)],
                                               cks, st.cci, 0, 0, <<0, 1>>)]
    ELSE [raised |-> FALSE, index |-> st.cci]

\* _get_chunk: the text, or <<"None">> when the index is out of range
GetChunk(cks, chunk_index) ==
    IF 0 <= chunk_index /\ chunk_index < Len(cks) THEN cks[chunk_index + 1] ELSE <<"None">>

-----------------------------------------------------------------------------
(* SubTranslator.translate_chunk as seen by its caller: the provider either   *)
(* raises (success False, translation "") or answers with a translation.     *)

Responses ==
    {[success |-> FALSE, translation |-> <<>>, term_candidates |-> EmptyDict]}
    \cup {[success |-> TRUE, translation |-> t, term_candidates |-> EmptyDict] :
              t \in Translations}

\* the term_candidates of a response: none, or one new term
CandidateDicts == {EmptyDict, [s \in {"s1"} |-> "t1"]}

\* answers that carry term_candidates next to the translation
CandidateResponses ==
    {[success |-> FALSE, translation |-> <<>>, term_candidates |-> EmptyDict]}
    \cup {[success |-> TRUE, translation |-> t, term_candidates |-> c] :
              t \in {<<"a", ".">>, <<"a", ".", ".", ".">>}, c \in CandidateDicts}

-----------------------------------------------------------------------------
(* RootOrchestrator: one round (execute_round) *)

\* the fields of the state that add_chunk touches, as one record
ChunkState ==
    [ch |-> chunk_history, th |-> translation_history, cci |-> current_chunk_index,
     cc |-> completed_chunks, qfc |-> qf_completed_chunks]

\* add_chunk that leaves the translation to a later update_chunk
AfterAddChunkSourceOnly(st, chunk_text, translation) ==
    [ch |-> Append(st.ch, chunk_text),
     th |-> st.th,
     cci |-> st.cci + 1,
     cc |-> st.cc + 1,
     qfc |-> st.qfc + 1]

\* add_chunk that leaves current_chunk_index where it was
AfterAddChunkKeepsIndex(st, chunk_text, translation) ==
    [ch |-> Append(st.ch, chunk_text),
     th |-> Append(st.th, translation),
     cci |-> st.cci,
     cc |-> st.cc + 1,
     qfc |-> st.qfc + 1]

\* add_chunk
AfterAddChunk(st, chunk_text, translation) ==
    [ch |-> Append(st.ch, chunk_text),
     th |-> Append(st.th, translation),
     cci |-> st.cci + 1,
     cc |-> st.cc + 1,
     qfc |-> st.qfc + 1]

\* _save_translation, the history part: update_chunk under its own range check
SavedTranslation(th, chunk_index, translation) ==
    IF 0 <= chunk_index /\ chunk_index < Len(th)
    THEN UpdatedChunk(th, chunk_index, translation)
    ELSE th

\* _reinforce_formatting: the previous translation goes back to the sub-translator,
\* under the state's current_chunk_index (cci) as chunk index
ReinforceFormatting(translation, cci, r) ==
    [translation |-> IF r.success THEN r.translation ELSE translation,
     calls |-> <<<<cci, translation>>>>,
     incremented |-> r.success, raised |-> FALSE]

\* _retranslate_chunk: on a provider failure the result's "translation", which is ""
RetranslateChunk(chunk_index, original_chunk, r) ==
    [translation |-> r.translation,
     calls |-> <<<<chunk_index, original_chunk>>>>,
     incremented |-> r.success, raised |-> FALSE]

\* _update_glossary_and_retranslate: the chunk is read from chunk_history at the
\* state's current_chunk_index; an index past the list raises IndexError
UpdateGlossaryAndRetranslate(st, r) ==
    IF st.cci < Len(st.ch)
    THEN RetranslateChunk(st.cci, st.ch[st.cci + 1], r)
    ELSE [translation |-> <<>>, calls |-> <<>>, incremented |-> FALSE, raised |-> TRUE]

\* a repair that never looks at the retry limit
PerformRepairIgnoringLimit(chunk_index, original_chunk, translation, repair_type, retry, st, r) ==
    IF repair_type = "template_reinforce"
    THEN ReinforceFormatting(translation, st.cci, r)
    ELSE IF repair_type = "glossary_update"
    THEN UpdateGlossaryAndRetranslate(st, r)
    ELSE RetranslateChunk(chunk_index, original_chunk, r)

\* _perform_repair, called once per round with retry_count = 0; st is the state
\* after add_chunk. re_translate, split_chunk and the default branch all end in
\* _retranslate_chunk(chunk_index, original_chunk)
PerformRepair(chunk_index, original_chunk, translation, repair_type, retry, st, r) ==
    IF retry >= max_retries
    THEN [translation |-> translation, calls |-> <<>>, incremented |-> FALSE,
          raised |-> FALSE]
    ELSE IF repair_type = "template_reinforce"
    THEN ReinforceFormatting(translation, st.cci, r)
    ELSE IF repair_type = "glossary_update"
    THEN UpdateGlossaryAndRetranslate(st, r)
    ELSE RetranslateChunk(chunk_index, original_chunk, r)

\* execute_round with the provider answering r1 to TRANSLATE and r2 to a repair:
\* the round's result, the state it leaves, and (trace) what VERIFY and REPAIR saw
\* (Validate sets template_reinforce or re_translate only, so that the repair of a
\* round never is the raising glossary_update)
ExecuteRound(r1, r2) ==
    LET next == SelectNextChunk(ChunkState, chunks, "sequential").index
        chunk == GetChunk(chunks, next)
        untouched == [st |-> ChunkState, rc |-> retry_count, hs |-> history_summaries,
                      saved |-> <<>>, summaries |-> <<>>, trace |-> [verified |-> FALSE]]
    IN
    IF next = NoChunk
    THEN [completed |-> TRUE, success |-> TRUE, has_chunk_index |-> FALSE,
          chunk_index |-> 0, has_message |-> TRUE, has_error |-> FALSE,
          message |-> <<"All chunks completed">>, calls |-> <<>>] @@ untouched
    ELSE IF chunk = <<"None">>
    THEN [completed |-> FALSE, success |-> FALSE, has_chunk_index |-> FALSE,
          chunk_index |-> 0, has_message |-> TRUE, has_error |-> FALSE,
          message |-> <<"Chunk not found", next>>, calls |-> <<>>] @@ untouched
    ELSE IF ~r1.success
    THEN [completed |-> FALSE, success |-> FALSE, has_chunk_index |-> FALSE,
          chunk_index |-> 0, has_message |-> TRUE, has_error |-> TRUE,
          message |-> <<"Translation failed for chunk", next>>,
          calls |-> <<<<next, chunk>>>>] @@ untouched
    ELSE
        LET st1 == AfterAddChunk(ChunkState, chunk, r1.translation)
            v == Validate(r1.translation, chunk,
                          BuildContextPackage(st1.ch, st1.th, chunk, next),
                          preset_type, check_sentence, check_length)
            rep == IF ~v.valid
                   THEN PerformRepair(next, chunk, r1.translation, v.repair_type, 0,
                                      st1, r2)
                   ELSE [translation |-> r1.translation, calls |-> <<>>,
                         incremented |-> FALSE]
            th2 == SavedTranslation(st1.th, next, rep.translation)
        IN [completed |-> FALSE, success |-> v.valid, has_chunk_index |-> TRUE,
            chunk_index |-> next, has_message |-> FALSE, message |-> <<>>,
            has_error |-> FALSE,
            calls |-> <<<<next, chunk>>>> \o rep.calls,
            st |-> [st1 EXCEPT !.th = th2],
            rc |-> IF rep.incremented
                   THEN RetryCountAfterIncrement(retry_count, "format_error")
                   ELSE retry_count,
            hs |-> SummariesAfterAdd(history_summaries,
                       <<"Chunk", next + 1, total_chunks, "completed successfully">>),
            saved |-> IF 0 <= next /\ next < Len(st1.th) THEN <<next>> ELSE <<>>,
            summaries |-> <<<<"Chunk", next + 1, total_chunks, "completed successfully">>>>,
            trace |-> [verified |-> TRUE, chunk |-> chunk, received |-> r1.translation,
                       valid |-> v.valid, errors |-> v.errors,
                       repair_type |-> v.repair_type, repairs |-> Len(rep.calls),
                       incremented |-> rep.incremented,
                       candidates |-> r1.term_candidates]]

-----------------------------------------------------------------------------
(* RootOrchestrator.run_full_translation *)

\* a loop that goes on until every chunk has succeeded, with no limit on the rounds
LoopContinuesUntilAllSucceed(it, sc, ec, total) ==
    sc < total

\* a loop that stops at the first round that failed
LoopContinuesWhileNoError(it, sc, ec, total) ==
    /\ ec = 0
    /\ ~(sc + ec >= total)
    /\ it < total + SafetyMargin

\* whether the while loop goes on after an iteration that did not see "completed":
\* the break on success_count + error_count >= total_chunks, then the loop condition
LoopContinues(it, sc, ec, total) ==
    /\ ~(sc + ec >= total)
    /\ it < total + SafetyMargin

\* the call, up to the first test of the loop condition
StartRun ==
    /\ pc = "idle"
    /\ IF ~has_repl
       THEN /\ pc' = "returned"
            /\ UNCHANGED <<iteration, success_count, error_count>>
       ELSE /\ iteration' = 0
            /\ success_count' = 0
            /\ error_count' = 0
            /\ pc' = IF 0 < total_chunks + SafetyMargin THEN "running" ELSE "returned"
    /\ sub_calls' = <<>>
    /\ committed' = <<>>
    /\ last' = "op"
    /\ obs' = NoObs
    /\ UNCHANGED <<stateVars, chunks, has_repl, max_retries, added>>

\* one iteration of the loop: execute_round, the counters, record_error, the breaks;
\* on is the position of a run whose loop goes on
RoundStep(r1, r2, on) ==
    /\ iteration < IterCap
    /\ \E res \in {ExecuteRound(r1, r2)} :
       LET sc == IF ~res.completed /\ res.success THEN success_count + 1 ELSE success_count
           ec == IF ~res.completed /\ ~res.success THEN error_count + 1 ELSE error_count
           failed == ~res.completed /\ ~res.success
           chunk_idx == IF res.has_chunk_index THEN res.chunk_index ELSE sc + ec - 1
           error_type == IF res.has_message THEN res.message ELSE <<"Unknown error">>
       IN
       /\ iteration' = iteration + 1
       /\ success_count' = sc
       /\ error_count' = ec
       /\ chunk_history' = res.st.ch
       /\ translation_history' = res.st.th
       /\ current_chunk_index' = res.st.cci
       /\ completed_chunks' = res.st.cc
       /\ qf_completed_chunks' = res.st.qfc
       /\ retry_count' = res.rc
       /\ history_summaries' = res.hs
       /\ error_chunks' = IF failed
                          THEN Append(error_chunks, <<chunk_idx, "format_error", error_type>>)
                          ELSE error_chunks
       /\ failed_chunks' = IF failed THEN failed_chunks + 1 ELSE failed_chunks
       /\ sub_calls' = sub_calls \o res.calls
       /\ committed' = committed \o res.saved
       /\ added' = added \o res.summaries
       /\ pc' = IF res.completed THEN "returned"
                ELSE IF LoopContinues(iteration + 1, sc, ec, total_chunks)
                     THEN on ELSE "returned"
       /\ obs' = [op |-> "round", chunk_index |-> res.chunk_index, calls |-> res.calls,
                   errors_before |-> Len(error_chunks), success |-> res.success,
                   completed |-> res.completed, has_error |-> res.has_error]
                  @@ res.trace
    /\ last' = "op"
    /\ UNCHANGED <<glossary, termVars, total_chunks, style_guide, chunks, has_repl,
                   max_retries>>

\* an iteration of the loop of a run
Round(r1, r2) ==
    /\ pc = "running"
    /\ RoundStep(r1, r2, "running")

\* the style guides a client gives the state: none, a forbidden word, a forbidden phrase
StyleGuides ==
    {DefaultStyleGuide,
     [DefaultStyleGuide EXCEPT !.forbidden_words = <<<<"A">>>>],
     [DefaultStyleGuide EXCEPT !.forbidden_phrases = <<<<"B", ".">>>>]}

\* a client fills state.style_guide before the run
SetStyleGuide(sg) ==
    /\ has_repl
    /\ pc = "idle"
    /\ style_guide' = sg
    /\ last' = "op"
    /\ obs' = NoObs
    /\ UNCHANGED <<chunkVars, qualityVars, glossary, termVars, history_summaries, chunks,
                   runVars, ghostVars, added>>

NextRun ==
    \/ \E doc \in Documents : SetText(doc)
    \/ StartRun
    \/ \E r1, r2 \in Responses : Round(r1, r2)
    \/ Reset

SpecRun == Init /\ [][NextRun]_vars

\* the provider answers every call (its timeout bounds each one), so a run that is
\* in its loop takes its next iteration
FairSpecRun == SpecRun /\ WF_vars(\E r1, r2 \in Responses : Round(r1, r2))

\* runs over a state whose style guide a client has filled
NextStyledRun ==
    \/ \E doc \in Documents : SetText(doc)
    \/ \E sg \in StyleGuides : SetStyleGuide(sg)
    \/ StartRun
    \/ \E r1, r2 \in Responses : Round(r1, r2)

SpecStyledRun == Init /\ [][NextStyledRun]_vars

\* runs whose provider answers carry term candidates, over a state in which a
\* client may have confirmed the term before
NextCandidateRun ==
    \/ \E doc \in Documents : SetText(doc)
    \/ pc = "idle" /\ UpdateGlossary("s1", "t2", TRUE)
    \/ StartRun
    \/ \E r1, r2 \in CandidateResponses : Round(r1, r2)

SpecCandidateRun == Init /\ [][NextCandidateRun]_vars

-----------------------------------------------------------------------------
(* Cancelling a run: RLMTranslatorGUIv2.cancel_translation (translator_gui_v2.py).
   The orchestrator holds no cancel flag and execute_round tests none; the window
   ends the worker thread that is inside run_full_translation. QThread.terminate
   does not stop the thread at once: it goes on until the operating system ends
   it, which wait() then observes. *)

\* cancel_translation: worker.isRunning(), then worker.terminate()
CancelTranslation ==
    /\ pc = "running"
    /\ pc' = "terminating"
    /\ last' = "op"
    /\ obs' = NoObs
    /\ UNCHANGED <<stateVars, chunks, has_repl, max_retries, iteration, success_count,
                   error_count, ghostVars, added>>

\* the worker thread, not yet ended, goes through another iteration of the loop
RoundWhileTerminating(r1, r2) ==
    /\ pc = "terminating"
    /\ RoundStep(r1, r2, "terminating")

\* the thread ends and worker.wait() returns: run_full_translation returns nothing
WorkerTerminated ==
    /\ pc = "terminating"
    /\ pc' = "terminated"
    /\ last' = "op"
    /\ obs' = NoObs
    /\ UNCHANGED <<stateVars, chunks, has_repl, max_retries, iteration, success_count,
                   error_count, ghostVars, added>>

NextCancel ==
    \/ \E doc \in Documents : SetText(doc)
    \/ StartRun
    \/ \E r1, r2 \in Responses : Round(r1, r2)
    \/ CancelTranslation
    \/ \E r1, r2 \in Responses : RoundWhileTerminating(r1, r2)
    \/ WorkerTerminated

SpecCancel == Init /\ [][NextCancel]_vars

-----------------------------------------------------------------------------
(* Direct calls of the state's and the REPL's history operations *)

\* what add_history_summary may be given by a direct caller
Summaries == {<<"sa">>, <<"sb">>}

\* quality_flag argument of _save_translation: absent, or a QualityFlagType
QualityFlagArgs == {"none", "format_error"}

\* the provider's answers in the runs that direct calls interleave with: a failure,
\* a complete translation, a truncated one
StateResponses ==
    {[success |-> FALSE, translation |-> <<>>, term_candidates |-> EmptyDict],
     [success |-> TRUE, translation |-> <<"a", ".">>, term_candidates |-> EmptyDict],
     [success |-> TRUE, translation |-> <<"a", ".", ".", ".">>,
      term_candidates |-> EmptyDict]}

\* what the direct callers pass as chunk text and as translation
DirectChunkTexts == {<<"z">>}
DirectTranslations == {<<"c", ".">>}

\* TranslationState.add_chunk
AddChunk(chunk_text, translation) ==
    /\ Len(chunk_history) < MaxHist
    /\ LET st == AfterAddChunk(ChunkState, chunk_text, translation) IN
       /\ chunk_history' = st.ch
       /\ translation_history' = st.th
       /\ current_chunk_index' = st.cci
       /\ completed_chunks' = st.cc
       /\ qf_completed_chunks' = st.qfc
    /\ last' = "op"
    /\ obs' = NoObs
    /\ UNCHANGED style_guide
    /\ UNCHANGED <<glossary, termVars, history_summaries, total_chunks, qualityVars,
                   chunks, runVars, ghostVars, added>>

\* TranslationState.update_chunk
UpdateChunk(chunk_index, translation) ==
    /\ translation_history' = UpdatedChunk(translation_history, chunk_index, translation)
    /\ last' = "op"
    /\ obs' = NoObs
    /\ UNCHANGED style_guide
    /\ UNCHANGED <<chunk_history, glossary, termVars, history_summaries, total_chunks,
                   completed_chunks, current_chunk_index, qf_completed_chunks,
                   qualityVars, chunks, runVars, ghostVars, added>>

\* EnhancedREPL._save_translation: inside the range, update_chunk and, with a
\* quality flag, record_error
SaveTranslation(chunk_index, translation, quality_flag) ==
    /\ quality_flag # "none" => Len(error_chunks) < MaxErrors
    /\ translation_history' = SavedTranslation(translation_history, chunk_index, translation)
    /\ IF /\ 0 <= chunk_index
          /\ chunk_index < Len(translation_history)
          /\ quality_flag # "none"
       THEN /\ error_chunks' = Append(error_chunks,
                   <<chunk_index, quality_flag, <<"Translation quality issue detected">>>>)
            /\ failed_chunks' = failed_chunks + 1
       ELSE UNCHANGED <<error_chunks, failed_chunks>>
    /\ last' = "op"
    /\ obs' = NoObs
    /\ UNCHANGED style_guide
    /\ UNCHANGED <<chunk_history, glossary, termVars, history_summaries, total_chunks,
                   completed_chunks, current_chunk_index, qf_completed_chunks,
                   retry_count, chunks, runVars, ghostVars, added>>

\* TranslationState.add_history_summary
AddHistorySummary(summary) ==
    /\ Len(added) < MaxAdds
    /\ history_summaries' = SummariesAfterAdd(history_summaries, summary)
    /\ added' = Append(added, summary)
    /\ last' = "op"
    /\ obs' = NoObs
    /\ UNCHANGED style_guide
    /\ UNCHANGED <<chunkVars, glossary, termVars, qualityVars, chunks, runVars, ghostVars>>

\* TranslationState.reset called on the state itself
ResetState ==
    /\ pc \notin {"running", "terminating"}
    /\ StateReset
    /\ added' = <<>>
    /\ last' = "op"
    /\ obs' = NoObs
    /\ UNCHANGED <<chunks, runVars, ghostVars>>

NextState ==
    \/ \E doc \in Documents : SetText(doc)
    \/ StartRun
    \/ \E r1, r2 \in StateResponses : Round(r1, r2)
    \/ \E c \in DirectChunkTexts, t \in DirectTranslations : AddChunk(c, t)
    \/ \E i \in (0 - 1)..MaxHist, t \in DirectTranslations : UpdateChunk(i, t)
    \/ \E i \in (0 - 1)..MaxHist, t \in DirectTranslations, q \in QualityFlagArgs :
            SaveTranslation(i, t, q)
    \/ Reset

SpecState == Init /\ [][NextState]_vars

NextHist ==
    \/ \E sm \in Summaries : AddHistorySummary(sm)
    \/ ResetState

SpecHist == Init /\ [][NextHist]_vars

-----------------------------------------------------------------------------
(* Direct calls of the verifier *)

\* longest error list handed to _determine_repair
MaxListedErrors == 2

\* n times the character c
Repeat(c, n) == [i \in 1..n |-> c]

\* translations given to validate: empty and blank ones, short ones, truncated ones,
\* and texts around the length where the sentence rule starts
VerifierTranslations ==
    {<<>>, <<" ">>, <<"a", ".">>, <<"A", " ", "b">>,
     <<"a", ".", ".", ".">>, <<"a", ".", ".", ".", " ">>, <<"a", "ELLIPSIS", "\n">>,
     Repeat("a", SentenceMinLen),
     Repeat("a", SentenceMinLen) \o <<" ">>,
     Repeat("a", SentenceMinLen) \o <<".">>,
     Repeat("a", SentenceMinLen) \o <<"KO1", ".", " ">>,
     Repeat("a", SentenceMinLen + 1),
     Repeat("a", SentenceMinLen + 1) \o <<"\n">>,
     Repeat("a", SentenceMinLen) \o <<"ELLIPSIS">>}

\* originals: a short one, and one beyond the length where the length floor starts
VerifierOriginals == {<<"x">>, Repeat("x", LengthMinOrig + 1)}

\* contexts: none, one with a "style" entry, and one shaped like the state's package
VerifierContexts ==
    {EmptyDict,
     [style |-> [forbidden_words |-> <<<<"A">>>>]],
     [style_guide |-> [tone |-> "neutral", forbidden_words |-> <<<<"A">>>>]]}

\* PresetType
Presets == {"subtitle", "patent", "paper", "novel", "technical", "general"}

\* ValidationType and ErrorSeverity
ValidationTypes == {"format", "completion", "forbidden", "terminology", "tone", "structure"}
ErrorSeverities == {"hard", "soft"}

\* the entries result.errors may hold, and lists of them
ErrorEntries ==
    {[type |-> t, message |-> "m", severity |-> sv] : t \in ValidationTypes, sv \in ErrorSeverities}

ErrorLists(max_len) == UNION {[1..n -> ErrorEntries] : n \in 0..max_len}

\* the arguments of one validate call, or of one _determine_repair call
VerifierArgs(max_errors) ==
    {[op |-> "validate_args", translation |-> t, original |-> o, context |-> c,
      preset |-> p, check_sentence |-> cs, check_length |-> cl] :
        t \in VerifierTranslations, o \in VerifierOriginals, c \in VerifierContexts,
        p \in Presets, cs \in BOOLEAN, cl \in BOOLEAN}
    \cup {[op |-> "determine_repair_args", errors |-> errors] : errors \in ErrorLists(max_errors)}

InitVerify ==
    /\ InitState
    /\ obs \in VerifierArgs(MaxListedErrors)

\* Verifier.validate on the arguments drawn
ValidateCall ==
    /\ obs.op = "validate_args"
    /\ obs' = [op |-> "validate", translation |-> obs.translation,
               original |-> obs.original, context |-> obs.context,
               preset |-> obs.preset, check_sentence |-> obs.check_sentence,
               check_length |-> obs.check_length]
              @@ Validate(obs.translation, obs.original, obs.context, obs.preset,
                          obs.check_sentence, obs.check_length)
    /\ last' = "op"
    /\ UNCHANGED <<stateVars, chunks, runVars, ghostVars, added>>

\* Verifier._determine_repair on a result holding the errors drawn
DetermineRepairCall ==
    /\ obs.op = "determine_repair_args"
    /\ obs' = [op |-> "determine_repair", errors |-> obs.errors,
               repair_type |-> DetermineRepair(GetHardErrorTypes(obs.errors))]
    /\ last' = "op"
    /\ UNCHANGED <<stateVars, chunks, runVars, ghostVars, added>>

NextVerify ==
    \/ ValidateCall
    \/ DetermineRepairCall

SpecVerify == InitVerify /\ [][NextVerify]_vars

-----------------------------------------------------------------------------
(* Verifier.validate with the whole ValidationResult: valid, errors, warnings and
   repair_type, LLM validation on or off *)

\* ValidationResult()
NewValidationResult ==
    [valid |-> TRUE, errors |-> <<>>, warnings |-> <<>>, repair_type |-> "none"]

\* add_error: the entry is appended and the result is no longer valid
AddError(result, e) == [result EXCEPT !.errors = Append(@, e), !.valid = FALSE]

\* an add_warning that also marks the result invalid
AddWarningInvalidates(result, warning_type) ==
    [result EXCEPT !.warnings = Append(@, warning_type), !.valid = FALSE]

\* add_warning: the entry is appended, nothing else changes
AddWarning(result, warning_type) == [result EXCEPT !.warnings = Append(@, warning_type)]

RECURSIVE AddErrors(_, _)
AddErrors(result, errors) ==
    IF errors = <<>> THEN result
    ELSE AddErrors(AddError(result, Head(errors)), Tail(errors))

RECURSIVE AddWarnings(_, _)
AddWarnings(result, warning_types) ==
    IF warning_types = <<>> THEN result
    ELSE AddWarnings(AddWarning(result, Head(warning_types)), Tail(warning_types))

DigitChars == {"0", "1", "2", "3", "4", "5", "6", "7", "8", "9"}

\* any(word.isdigit() for word in translation.split())
AnyDigitWord(translation) ==
    \E a \in DOMAIN translation : \E b \in a..Len(translation) :
        /\ \A k \in a..b : translation[k] \in DigitChars
        /\ a = 1 \/ IsSpace(translation[a - 1])
        /\ b = Len(translation) \/ IsSpace(translation[b + 1])

\* translation.count('.')
CountStops(translation) == Cardinality({k \in DOMAIN translation : translation[k] = "."})

\* _validate_patent_format and _validate_paper_format: warnings only
PresetWarnings(translation, preset) ==
    IF preset = "patent"
    THEN (IF ~AnyDigitWord(translation) THEN <<"structure">> ELSE <<>>)
         \o (IF ~Contains(Lower(translation), <<"w", "h", "e", "r", "e", "i", "n">>)
             THEN <<"structure">> ELSE <<>>)
    ELSE IF preset = "paper"
    THEN (IF CountStops(translation) < 3 THEN <<"structure">> ELSE <<>>)
    ELSE <<>>

\* _check_terminology: a warning for every glossary term the translation does not
\* hold (the first 10 terms; the glossaries followed are shorter)
RECURSIVE TerminologyWarnings(_, _)
TerminologyWarnings(terms, translation) ==
    IF terms = {} THEN <<>>
    ELSE LET term == CHOOSE t \in terms : TRUE IN
         (IF ~Contains(Lower(translation), Lower(term)) THEN <<"terminology">> ELSE <<>>)
         \o TerminologyWarnings(terms \ {term}, translation)

\* the warnings _rule_based_validation adds: none when it returns on an empty
\* translation
RuleBasedWarnings(translation, original, context, preset) ==
    IF translation = <<>> \/ Strip(translation) = <<>> THEN <<>>
    ELSE PresetWarnings(translation, preset)
         \o (IF Len(translation) > Len(original) * 3 THEN <<"completion">> ELSE <<>>)
         \o (IF "glossary" \in DOMAIN context
             THEN TerminologyWarnings(DOMAIN context["glossary"], translation)
             ELSE <<>>)

\* _llm_validation: a placeholder, one warning when the result has none
LlmValidation(result) ==
    IF ~result.valid /\ result.warnings = <<>> THEN AddWarning(result, "tone") ELSE result

\* Verifier.validate, returning the ValidationResult
ValidationResultOf(translation, original, context, preset, chkSentence, chkLength, llm) ==
    LET errs == RuleBasedErrors(translation, original, context, preset,
                                chkSentence, chkLength)
        warns == RuleBasedWarnings(translation, original, context, preset)
        r0 == AddWarnings(AddErrors(NewValidationResult, errs), warns)
        r1 == IF ~r0.valid /\ llm THEN LlmValidation(r0) ELSE r0
    IN IF ~r1.valid
       THEN [r1 EXCEPT !.repair_type = DetermineRepair(GetHardErrorTypes(r1.errors))]
       ELSE r1

\* translations given to validate, with ones a patent or paper preset accepts
ValidationTranslations ==
    VerifierTranslations
    \cup {<<"1", " ", "a", ".">>, <<"a", ".", "b", ".", "a", ".">>, <<"b", ".">>}

\* contexts given to validate, with ones holding a glossary
ValidationContexts ==
    VerifierContexts
    \cup {[glossary |-> [t \in {<<"a">>} |-> "t1"]],
          [glossary |-> [t \in {<<"b">>} |-> "t1"],
           style |-> [forbidden_words |-> <<<<"A">>>>]]}

\* the arguments of one validate call and the verifier's enable_llm_validation
ValidationArgs ==
    {[op |-> "validation_args", translation |-> t, original |-> o, context |-> c,
      preset |-> p, check_sentence |-> cs, check_length |-> cl,
      enable_llm_validation |-> llm] :
        t \in ValidationTranslations, o \in VerifierOriginals, c \in ValidationContexts,
        p \in Presets, cs \in BOOLEAN, cl \in BOOLEAN, llm \in BOOLEAN}

InitValidation ==
    /\ InitState
    /\ obs \in ValidationArgs

\* Verifier.validate on the arguments drawn
ValidationCall ==
    /\ obs.op = "validation_args"
    /\ obs' = [obs EXCEPT !.op = "validation"]
              @@ ValidationResultOf(obs.translation, obs.original, obs.context,
                                    obs.preset, obs.check_sentence, obs.check_length,
                                    obs.enable_llm_validation)
    /\ last' = "op"
    /\ UNCHANGED <<stateVars, chunks, runVars, ghostVars, added>>

NextValidation == ValidationCall

SpecValidation == InitValidation /\ [][NextValidation]_vars

-----------------------------------------------------------------------------
(* TranslationState.add_glossary_entry and the REPL's update_glossary *)

\* most updates of one glossary entry followed
MaxUsage == 2
\* longest source_chunk_indices followed
MaxIndices == 3

\* confidence values, in tenths: the default 0.0, 0.5, and the REPL's 0.7
Confidences == {0, 5, 7}
\* EnhancedREPL._update_glossary: confidence=0.7, in tenths
ReplConfidence == 7

\* source_chunk_indices arguments; <<>> stands for both None and [], which
\* add_glossary_entry treats alike
IndexArgs == {<<>>, <<0>>, <<0, 1>>}

\* chunk texts that mention the glossary's source term
GlossaryChunkTexts == {<<"s1">>}

\* TermEntry(source, target, confidence, source_chunk_indices, is_hard), usage_count 0
NewTermEntry(source, target, confidence, indices, is_hard) ==
    [source |-> source, target |-> target, confidence |-> confidence,
     source_chunk_indices |-> indices, is_hard |-> is_hard, usage_count |-> 0]

\* max(a, b)
Max(a, b) == IF a >= b THEN a ELSE b

\* add_glossary_entry: the glossary it leaves
AfterAddGlossaryEntry(g, source, target, confidence, indices, is_hard) ==
    IF source \in DOMAIN g
    THEN [g EXCEPT ![source] =
            [@ EXCEPT !.target = target,
                      !.confidence = Max(@, confidence),
                      !.source_chunk_indices = IF indices # <<>> THEN @ \o indices ELSE @,
                      !.usage_count = @ + 1]]
    ELSE Put(g, source, NewTermEntry(source, target, confidence, indices, is_hard))

\* every field of the state has its default
IsFreshState ==
    /\ chunk_history = <<>> /\ translation_history = <<>> /\ glossary = EmptyDict
    /\ term_candidates = EmptyDict /\ confirmed_terms = EmptyDict
    /\ hard_glossary = EmptyDict /\ soft_glossary = EmptyDict
    /\ proper_nouns = EmptyDict /\ reference_signs = EmptyDict
    /\ technical_terms = EmptyDict /\ history_summaries = <<>>
    /\ total_chunks = 0 /\ completed_chunks = 0 /\ current_chunk_index = 0
    /\ qf_completed_chunks = 0 /\ failed_chunks = 0 /\ retry_count = EmptyDict
    /\ error_chunks = <<>> /\ style_guide = DefaultStyleGuide

\* TranslationState.add_glossary_entry, called by caller
AddGlossaryEntryBy(caller, source, target, confidence, indices, is_hard) ==
    /\ source \in DOMAIN glossary =>
        /\ glossary[source].usage_count < MaxUsage
        /\ Len(glossary[source].source_chunk_indices) + Len(indices) <= MaxIndices
    /\ glossary' = AfterAddGlossaryEntry(glossary, source, target, confidence, indices,
                                         is_hard)
    /\ obs' = [op |-> "add_glossary_entry", caller |-> caller,
               source |-> source, target |-> target,
               confidence |-> confidence, indices |-> indices, is_hard |-> is_hard,
               fresh |-> IsFreshState, existed |-> source \in DOMAIN glossary,
               before |-> glossary]
    /\ last' = "op"
    /\ UNCHANGED <<chunkVars, qualityVars, termVars, history_summaries, style_guide,
                   chunks, runVars, ghostVars, added>>

\* TranslationState.add_glossary_entry called on the state
AddGlossaryEntry(source, target, confidence, indices, is_hard) ==
    AddGlossaryEntryBy("state", source, target, confidence, indices, is_hard)

\* the indices of the chunks of the history that contain the source term
RECURSIVE IndicesContaining(_, _, _)
IndicesContaining(ch, source, i) ==
    IF i > Len(ch) THEN <<>>
    ELSE (IF Contains(ch[i], <<source>>) THEN <<i - 1>> ELSE <<>>)
         \o IndicesContaining(ch, source, i + 1)

\* EnhancedREPL._update_glossary (the REPL function update_glossary)
ReplUpdateGlossary(source, target, is_hard) ==
    AddGlossaryEntryBy("repl", source, target, ReplConfidence,
                       IndicesContaining(chunk_history, source, 1), is_hard)

NextGlossary ==
    \/ \E s \in MutatorSources, t \in Targets, c \in Confidences, ix \in IndexArgs,
          h \in BOOLEAN : AddGlossaryEntry(s, t, c, ix, h)
    \/ \E s \in MutatorSources, t \in Targets, h \in BOOLEAN : ReplUpdateGlossary(s, t, h)
    \/ \E c \in GlossaryChunkTexts, t \in DirectTranslations : AddChunk(c, t)
    \/ ResetState

SpecGlossary == Init /\ [][NextGlossary]_vars

-----------------------------------------------------------------------------
(* ChunkingStrategy.chunk_text (chunking_strategy.py); positions are 0-based *)

\* longest text chunked
MaxTextLen == 4
\* largest chunk_size tried
MaxChunkSize == 4

\* the characters of the texts: a letter, the two kinds of sentence punctuation,
\* a space, a closing quote, a line feed
ChunkAlphabet == {"a", ".", "!", " ", "'", "\n"}

\* the texts of at most max_len characters
ChunkInputTexts(max_len) == UNION {[1..n -> ChunkAlphabet] : n \in 0..max_len}

\* text[i]
CharAt(text, i) == text[i + 1]

\* text[a:b]
Slice(text, a, b) == SubSeq(text, a + 1, IF b <= Len(text) THEN b ELSE Len(text))

\* min(a, b)
Min(a, b) == IF a <= b THEN a ELSE b

\* the characters after which a sentence may end, and those skipped after '!' or '?'
SentencePunctuation == {".", "!", "?"}
ClosersAndSpace == {" ", "\"", "'", ")"}

\* the inner while of _find_sentence_boundary: skip quotes, parens and spaces
RECURSIVE SkipClosers(_, _)
SkipClosers(text, end) ==
    IF end < Len(text) /\ CharAt(text, end) \in ClosersAndSpace
    THEN SkipClosers(text, end + 1)
    ELSE end

\* _find_sentence_boundary, from its loop variable end on
RECURSIVE SentenceBoundaryFrom(_, _, _, _)
SentenceBoundaryFrom(text, start, max_size, end) ==
    IF ~(end < Min(start + max_size, Len(text) - 1))
    THEN start + max_size
    ELSE LET char == CharAt(text, end)
             next_char == IF end + 1 < Len(text) THEN CharAt(text, end + 1) ELSE ""
         IN IF char \in SentencePunctuation /\ next_char \in (ClosersAndSpace \cup {""})
            THEN IF char \in {"!", "?"}
                 THEN LET skipped == SkipClosers(text, end + 1) IN
                      IF skipped < Len(text) /\ IsSpace(CharAt(text, skipped))
                      THEN skipped + 1
                      ELSE SentenceBoundaryFrom(text, start, max_size, skipped + 1)
                 ELSE end + 1
            ELSE SentenceBoundaryFrom(text, start, max_size, end + 1)

FindSentenceBoundary(text, start, max_size) ==
    SentenceBoundaryFrom(text, start, max_size, start)

\* _find_paragraph_boundary, from its loop variable end on
RECURSIVE ParagraphBoundaryFrom(_, _, _, _)
ParagraphBoundaryFrom(text, start, max_size, end) ==
    IF ~(end < Min(start + max_size, Len(text) - 1))
    THEN start + max_size
    ELSE IF /\ CharAt(text, end) = "\n"
            /\ end + 1 < Len(text)
            /\ CharAt(text, end + 1) = "\n"
         THEN end + 2
         ELSE ParagraphBoundaryFrom(text, start, max_size, end + 1)

FindParagraphBoundary(text, start, max_size) ==
    ParagraphBoundaryFrom(text, start, max_size, start)

\* _find_break_point
FindBreakPoint(text, start, max_size) ==
    IF FindSentenceBoundary(text, start, max_size) > start
    THEN FindSentenceBoundary(text, start, max_size)
    ELSE IF FindParagraphBoundary(text, start, max_size) > start
         THEN FindParagraphBoundary(text, start, max_size)
         ELSE Min(start + max_size, Len(text))

\* chunk_text: where the next chunk starts
NextPosition(current_pos, overlap, end) == Max(current_pos + overlap, end)

\* the while loop of chunk_text: the list of (start, end, chunk_text)
RECURSIVE ChunkLoop(_, _, _, _, _)
ChunkLoop(text, chunk_size, overlap, current_pos, acc) ==
    IF ~(current_pos < Len(text)) THEN acc
    ELSE LET end == FindBreakPoint(text, current_pos, chunk_size)
             chunk_text == Strip(Slice(text, current_pos, end))
             acc2 == IF chunk_text # <<>>
                     THEN Append(acc, <<current_pos, end, chunk_text>>) ELSE acc
         IN IF end >= Len(text) THEN acc2
            ELSE ChunkLoop(text, chunk_size, overlap,
                           NextPosition(current_pos, overlap, end), acc2)

\* ChunkingStrategy.chunk_text
ChunkText(text, chunk_size, overlap) ==
    IF text = <<>> THEN <<>> ELSE ChunkLoop(text, chunk_size, overlap, 0, <<>>)

\* the arguments of one chunk_text call: a text, and a strategy whose overlap is
\* smaller than its chunk size, as in the defaults (2000, 150)
ChunkArgs(max_len, max_size) ==
    {[op |-> "chunk_text_args", text |-> t, chunk_size |-> cs, overlap |-> ov] :
        t \in ChunkInputTexts(max_len), cs \in 1..max_size, ov \in 0..(max_size - 1)}

InitChunk ==
    /\ InitState
    /\ obs \in {a \in ChunkArgs(MaxTextLen, MaxChunkSize) : a.overlap < a.chunk_size}

\* ChunkingStrategy(chunk_size, overlap).chunk_text(text) on the arguments drawn
ChunkTextCall ==
    /\ obs.op = "chunk_text_args"
    /\ obs' = [op |-> "chunk_text", text |-> obs.text, chunk_size |-> obs.chunk_size,
               overlap |-> obs.overlap,
               chunks |-> ChunkText(obs.text, obs.chunk_size, obs.overlap)]
    /\ last' = "op"
    /\ UNCHANGED <<stateVars, chunks, runVars, ghostVars, added>>

NextChunk == ChunkTextCall

SpecChunk == InitChunk /\ [][NextChunk]_vars

-----------------------------------------------------------------------------
(* ChunkingStrategy.chunk_by_paragraph (chunking_strategy.py) *)

\* longest text chunked by paragraph
MaxParaTextLen == 5
\* largest chunk_size tried
MaxParaChunkSize == 6

\* the characters of the texts: a letter, sentence punctuation, a space, a line feed
ParaAlphabet == {"a", ".", " ", "\n"}

\* the texts of at most max_len characters
ParaInputTexts(max_len) == UNION {[1..n -> ParaAlphabet] : n \in 0..max_len}

\* the characters of the lookbehind in _split_paragraph_by_sentences; FW_* stand for
\* the full-width marks
SentenceEndChars == {".", "!", "?", "FW_STOP", "FW_EXCL", "FW_QUES"}

\* the end of the run of whitespace that starts at position i
RECURSIVE WhitespaceRunEnd(_, _)
WhitespaceRunEnd(text, i) ==
    IF i < Len(text) /\ IsSpace(CharAt(text, i)) THEN WhitespaceRunEnd(text, i + 1) ELSE i

\* the last line feed at a position in from..(to - 1), or -1
RECURSIVE LastLineFeed(_, _, _)
LastLineFeed(text, from, to) ==
    IF to <= from THEN -1
    ELSE IF CharAt(text, to - 1) = "\n" THEN to - 1 ELSE LastLineFeed(text, from, to - 1)

\* re.split(r'\n\s*\n', text) from position i on; piece_start is where the piece
\* being read began. A match starts at a line feed and, \s* being greedy, ends at
\* the last line feed of the whitespace that follows
RECURSIVE SplitParagraphsFrom(_, _, _, _)
SplitParagraphsFrom(text, i, piece_start, acc) ==
    IF i >= Len(text) THEN Append(acc, Slice(text, piece_start, Len(text)))
    ELSE IF CharAt(text, i) = "\n"
              /\ LastLineFeed(text, i + 1, WhitespaceRunEnd(text, i + 1)) >= 0
         THEN LET k == LastLineFeed(text, i + 1, WhitespaceRunEnd(text, i + 1))
              IN SplitParagraphsFrom(text, k + 1, k + 1,
                                     Append(acc, Slice(text, piece_start, i)))
         ELSE SplitParagraphsFrom(text, i + 1, piece_start, acc)

SplitParagraphs(text) == SplitParagraphsFrom(text, 0, 0, <<>>)

\* re.split(r'(?<=[.!?...])\s+', paragraph) from position i on: a match is a whole
\* run of whitespace that directly follows one of the sentence-ending characters
RECURSIVE SplitSentencesFrom(_, _, _, _)
SplitSentencesFrom(paragraph, i, piece_start, acc) ==
    IF i >= Len(paragraph) THEN Append(acc, Slice(paragraph, piece_start, Len(paragraph)))
    ELSE IF /\ i >= 1
            /\ CharAt(paragraph, i - 1) \in SentenceEndChars
            /\ IsSpace(CharAt(paragraph, i))
         THEN LET j == WhitespaceRunEnd(paragraph, i)
              IN SplitSentencesFrom(paragraph, j, j,
                                    Append(acc, Slice(paragraph, piece_start, i)))
         ELSE SplitSentencesFrom(paragraph, i + 1, piece_start, acc)

SplitSentences(paragraph) == SplitSentencesFrom(paragraph, 0, 0, <<>>)

\* sep.join(parts)
RECURSIVE Join(_, _)
Join(parts, sep) ==
    IF parts = <<>> THEN <<>>
    ELSE IF Len(parts) = 1 THEN parts[1]
    ELSE parts[1] \o sep \o Join(Tail(parts), sep)

\* [x.strip() for x in parts if x.strip()]: the loops' first three lines
RECURSIVE StrippedNonEmpty(_)
StrippedNonEmpty(parts) ==
    IF parts = <<>> THEN <<>>
    ELSE IF Strip(parts[1]) = <<>> THEN StrippedNonEmpty(Tail(parts))
    ELSE <<Strip(parts[1])>> \o StrippedNonEmpty(Tail(parts))

\* _split_paragraph_by_sentences: the loop over the sentences still to place
RECURSIVE SentenceLoop(_, _, _, _, _)
SentenceLoop(sentences, chunk_size, acc, current_chunk, current_size) ==
    IF sentences = <<>>
    THEN IF current_chunk # <<>> THEN Append(acc, Join(current_chunk, <<" ">>)) ELSE acc
    ELSE LET sentence == sentences[1]
             sent_size == Len(sentence)
         IN IF current_size + sent_size + 1 > chunk_size
            THEN SentenceLoop(Tail(sentences), chunk_size,
                              IF current_chunk # <<>>
                              THEN Append(acc, Join(current_chunk, <<" ">>)) ELSE acc,
                              <<sentence>>, sent_size)
            ELSE SentenceLoop(Tail(sentences), chunk_size, acc,
                              Append(current_chunk, sentence), current_size + sent_size + 1)

\* _split_paragraph_by_sentences
SplitParagraphBySentences(paragraph, chunk_size) ==
    SentenceLoop(StrippedNonEmpty(SplitSentences(paragraph)), chunk_size, <<>>, <<>>, 0)

\* a chunk made of the first collected paragraph alone
ParagraphChunkFirstOnly(current_chunk) ==
    <<0, Len(current_chunk[1]), current_chunk[1]>>

\* the (start, end, chunk_text) that chunk_by_paragraph appends for the paragraphs
\* collected in current_chunk; current_start is 0 wherever it is assigned
ParagraphChunk(current_chunk) ==
    <<0, Len(Join(current_chunk, <<"\n", "\n">>)), Join(current_chunk, <<"\n", "\n">>)>>

\* the (0, len(sent_chunk), sent_chunk) appended for each chunk of a large paragraph
RECURSIVE SentenceChunks(_)
SentenceChunks(sent_chunks) ==
    IF sent_chunks = <<>> THEN <<>>
    ELSE <<<<0, Len(sent_chunks[1]), sent_chunks[1]>>>> \o SentenceChunks(Tail(sent_chunks))

\* chunk_by_paragraph: a paragraph joins current_chunk unless, with the two
\* characters of the separator, it would exceed chunk_size
ParagraphFits(current_size, para_size, chunk_size) ==
    ~(current_size + para_size + 2 > chunk_size)

\* chunk_by_paragraph: the loop over the paragraphs still to place. st holds the
\* list of chunks, current_chunk, current_size, the warnings the callback got and,
\* for each large paragraph, the chunks made from it
RECURSIVE ParagraphLoop(_, _, _)
ParagraphLoop(paragraphs, chunk_size, st) ==
    IF paragraphs = <<>>
    THEN [st EXCEPT !.chunks = IF st.current_chunk # <<>>
                               THEN Append(@, ParagraphChunk(st.current_chunk)) ELSE @,
                    !.current_chunk = <<>>]
    ELSE LET para == paragraphs[1]
             para_size == Len(para)
             flushed == IF st.current_chunk # <<>>
                        THEN Append(st.chunks, ParagraphChunk(st.current_chunk))
                        ELSE st.chunks
         IN IF para_size > chunk_size
            THEN LET sentence_chunks == SplitParagraphBySentences(para, chunk_size)
                 IN ParagraphLoop(Tail(paragraphs), chunk_size,
                        [chunks |-> flushed \o SentenceChunks(sentence_chunks),
                         current_chunk |-> <<>>,
                         current_size |-> IF st.current_chunk # <<>>
                                          THEN 0 ELSE st.current_size,
                         warnings |-> Append(st.warnings, chunk_size),
                         large |-> Append(st.large, [paragraph |-> para,
                                                     chunks |-> sentence_chunks])])
            ELSE IF ~ParagraphFits(st.current_size, para_size, chunk_size)
                 THEN ParagraphLoop(Tail(paragraphs), chunk_size,
                        [st EXCEPT !.chunks = flushed,
                                   !.current_chunk = <<para>>,
                                   !.current_size = para_size])
                 ELSE ParagraphLoop(Tail(paragraphs), chunk_size,
                        [st EXCEPT !.current_chunk = Append(@, para),
                                   !.current_size = @ + para_size + 2])

\* ChunkingStrategy(chunk_size).chunk_by_paragraph(text, show_warning_callback)
ChunkByParagraph(text, chunk_size) ==
    IF text = <<>>
    THEN [chunks |-> <<>>, current_chunk |-> <<>>, current_size |-> 0,
          warnings |-> <<>>, large |-> <<>>]
    ELSE ParagraphLoop(StrippedNonEmpty(SplitParagraphs(text)), chunk_size,
                       [chunks |-> <<>>, current_chunk |-> <<>>, current_size |-> 0,
                        warnings |-> <<>>, large |-> <<>>])

\* the arguments of one chunk_by_paragraph call
ParaArgs(max_len, max_size) ==
    {[op |-> "chunk_by_paragraph_args", text |-> t, chunk_size |-> cs] :
        t \in ParaInputTexts(max_len), cs \in 1..max_size}

InitPara ==
    /\ InitState
    /\ obs \in ParaArgs(MaxParaTextLen, MaxParaChunkSize)

\* chunk_by_paragraph on the arguments drawn, with a callback that collects warnings
ChunkByParagraphCall ==
    /\ obs.op = "chunk_by_paragraph_args"
    /\ LET res == ChunkByParagraph(obs.text, obs.chunk_size)
       IN obs' = [op |-> "chunk_by_paragraph", text |-> obs.text,
                  chunk_size |-> obs.chunk_size, chunks |-> res.chunks,
                  warnings |-> res.warnings, large |-> res.large]
    /\ last' = "op"
    /\ UNCHANGED <<stateVars, chunks, runVars, ghostVars, added>>

NextPara == ChunkByParagraphCall

SpecPara == InitPara /\ [][NextPara]_vars

-----------------------------------------------------------------------------
(* RLMTranslatorV2._translate_srt (rlm_translator_v2.py), parse_srt and format_srt
   (text_utils.py). A text is the list of its lines, text.split('\n'): the empty
   text is one empty line. A line is an index line (digits), a timestamp line
   (start --> end), a line of words, the separator line '---' or the empty line. *)

\* most cues in the subtitle file
MaxCues == 11
\* most separator-delimited parts in one answer of the provider
MaxResponseParts == 3

\* _translate_srt: batch_size
batch_size == 10

EmptyLine == [kind |-> "empty", a |-> 0, b |-> 0]
SeparatorLine == [kind |-> "sep", a |-> 0, b |-> 0]
IndexLine(n) == [kind |-> "index", a |-> n, b |-> 0]
TimeLine(start, end) == [kind |-> "time", a |-> start, b |-> end]
\* a line of words; w tells the source wording (0) from a translated one (1)
WordsLine(w) == [kind |-> "words", a |-> w, b |-> 0]

\* the empty string
EmptyText == <<EmptyLine>>

\* text.strip(), for lines that carry no blanks of their own: the empty lines at
\* both ends go
RECURSIVE RStripLines(_)
RStripLines(lines) ==
    IF lines = <<>> THEN EmptyText
    ELSE IF lines[Len(lines)] = EmptyLine THEN RStripLines(SubSeq(lines, 1, Len(lines) - 1))
    ELSE lines

RECURSIVE LStripLines(_)
LStripLines(lines) ==
    IF lines = <<>> THEN EmptyText
    ELSE IF lines[1] = EmptyLine THEN LStripLines(Tail(lines))
    ELSE lines

StripLines(lines) == LStripLines(RStripLines(lines))

\* re.split(r'\n\n+', text): the blocks between runs of empty lines; block is the
\* block being read
RECURSIVE SplitBlocks(_, _, _)
SplitBlocks(lines, block, acc) ==
    IF lines = <<>> THEN Append(acc, block)
    ELSE IF lines[1] = EmptyLine
         THEN IF Len(lines) >= 2 /\ lines[2] = EmptyLine
              THEN SplitBlocks(Tail(lines), block, acc)
              ELSE SplitBlocks(Tail(lines), <<>>, Append(acc, block))
         ELSE SplitBlocks(Tail(lines), Append(block, lines[1]), acc)

\* parse_srt: the entry of one block, or no entry
ParseBlock(block) ==
    IF /\ Len(block) >= 2
       /\ block[1].kind = "index"
       /\ block[2].kind = "time"
    THEN <<[index |-> block[1].a, start |-> block[2].a, end |-> block[2].b,
            text |-> IF Len(block) > 2 THEN SubSeq(block, 3, Len(block)) ELSE EmptyText]>>
    ELSE <<>>

RECURSIVE ParseBlocks(_)
ParseBlocks(blocks) ==
    IF blocks = <<>> THEN <<>>
    ELSE ParseBlock(blocks[1]) \o ParseBlocks(Tail(blocks))

\* parse_srt
ParseSrt(text) ==
    LET stripped == StripLines(text)
    IN ParseBlocks(SplitBlocks(Tail(stripped), <<stripped[1]>>, <<>>))

\* format_srt: the blocks joined by an empty line
RECURSIVE FormatBlocks(_)
FormatBlocks(entries) ==
    IF entries = <<>> THEN EmptyText
    ELSE LET block == <<IndexLine(entries[1].index),
                        TimeLine(entries[1].start, entries[1].end)>> \o entries[1].text
         IN IF Len(entries) = 1 THEN block
            ELSE block \o <<EmptyLine>> \o FormatBlocks(Tail(entries))

\* format_srt: '\n\n'.join(blocks) + '\n'
FormatSrt(entries) == FormatBlocks(entries) \o <<EmptyLine>>

\* translated.split('\n---\n'): a separator line splits when it is neither the
\* first nor the last line and the line before it was not consumed as a separator;
\* part is the part being read
RECURSIVE SplitParts(_, _, _, _)
SplitParts(lines, part, first, acc) ==
    IF lines = <<>> THEN Append(acc, IF part = <<>> THEN EmptyText ELSE part)
    ELSE IF lines[1] = SeparatorLine /\ ~first /\ Len(lines) >= 2 /\ part # <<>>
         THEN SplitParts(Tail(lines), <<>>, FALSE, Append(acc, part))
         ELSE SplitParts(Tail(lines), Append(part, lines[1]), FALSE, acc)

\* entries[i:i+batch_size]
Batch(entries, i) == SubSeq(entries, i + 1, Min(i + batch_size, Len(entries)))

\* the inner loop of _translate_srt: the batch's entries, the j-th with the
\* stripped j-th part as text when there is one
TranslatedBatch(batch, translated_parts) ==
    [j \in 1..Len(batch) |->
        IF j <= Len(translated_parts)
        THEN [batch[j] EXCEPT !.text = StripLines(translated_parts[j])]
        ELSE batch[j]]

\* the subtitle file of n cues: cue k has index k, its own timestamps and one line
SrtInput(n) ==
    FormatSrt([k \in 1..n |-> [index |-> k, start |-> 2 * k, end |-> 2 * k + 1,
                               text |-> <<WordsLine(0)>>]])

\* what the provider may write for one cue: a line of words, nothing, or a line
\* of words followed by an empty line and the two header lines of a cue
ResponseParts ==
    {<<WordsLine(1)>>, EmptyText,
     <<WordsLine(1), EmptyLine, IndexLine(1), TimeLine(2, 3)>>}

\* the provider's answers: response.content made of at most max_parts parts with
\* the separator line between them
SrtResponses(max_parts) ==
    {Join(parts, <<SeparatorLine>>) :
        parts \in UNION {[1..n -> ResponseParts] : n \in 1..max_parts}}

\* the files given to _translate_srt
SrtArgs(max_cues) == {[op |-> "translate_srt_args", text |-> SrtInput(n)] : n \in 1..max_cues}

InitSrt ==
    /\ InitState
    /\ obs \in SrtArgs(MaxCues)

\* _translate_srt up to its loop: parse the file
SrtParse ==
    /\ obs.op = "translate_srt_args"
    /\ obs' = [op |-> "translate_srt", at |-> "loop", text |-> obs.text,
               entries |-> ParseSrt(obs.text), i |-> 0, calls |-> 0,
               translated_entries |-> <<>>, translated_text |-> EmptyText,
               chunks_count |-> 0]
    /\ last' = "op"
    /\ UNCHANGED <<stateVars, chunks, runVars, ghostVars, added>>

\* one pass of the loop over the batches: _call_sub_agent returns
\* response.content.strip(), which is split and dealt to the batch's entries
SrtBatch(content) ==
    /\ obs.op = "translate_srt"
    /\ obs.at = "loop"
    /\ obs.i < Len(obs.entries)
    /\ LET translated == StripLines(content)
           translated_parts == SplitParts(translated, <<>>, TRUE, <<>>)
       IN obs' = [obs EXCEPT !.i = @ + batch_size,
                             !.calls = @ + 1,
                             !.translated_entries =
                                 @ \o TranslatedBatch(Batch(obs.entries, obs.i),
                                                      translated_parts)]
    /\ last' = "op"
    /\ UNCHANGED <<stateVars, chunks, runVars, ghostVars, added>>

\* after the loop: format the entries and return the TranslationResult
SrtReturn ==
    /\ obs.op = "translate_srt"
    /\ obs.at = "loop"
    /\ ~(obs.i < Len(obs.entries))
    /\ obs' = [obs EXCEPT !.at = "returned",
                          !.translated_text = FormatSrt(obs.translated_entries),
                          !.chunks_count = Len(obs.entries)]
    /\ last' = "op"
    /\ UNCHANGED <<stateVars, chunks, runVars, ghostVars, added>>

NextSrt ==
    \/ SrtParse
    \/ \E content \in SrtResponses(MaxResponseParts) : SrtBatch(content)
    \/ SrtReturn

SpecSrt == InitSrt /\ [][NextSrt]_vars

-----------------------------------------------------------------------------
(* SubTranslator._parse_llm_response and translate_chunk (sub_translator.py). The
   response is a list of tokens: FENCE_JSON is the opening ```json, FENCE a bare
   ```, MEMBER the member "translated_text": "b." of an object, "x" a word. *)

\* longest response, in tokens
MaxContentLen == 4

ContentAlphabet == {"FENCE_JSON", "FENCE", "{", "}", "MEMBER", "x", ".", " "}

\* response.content of at most max_len tokens
ResponseContents(max_len) == UNION {[1..n -> ContentAlphabet] : n \in 0..max_len}

\* ``` is found at a bare fence and at the head of an opening one
Fences == {"FENCE", "FENCE_JSON"}

\* the first position >= i of content holding one of toks, or Len(content)
RECURSIVE FirstPosition(_, _, _)
FirstPosition(content, i, toks) ==
    IF i >= Len(content) THEN Len(content)
    ELSE IF CharAt(content, i) \in toks THEN i
    ELSE FirstPosition(content, i + 1, toks)

\* the last position of content holding tok, or -1
RECURSIVE LastPosition(_, _, _)
LastPosition(content, i, tok) ==
    IF i < 0 THEN -1
    ELSE IF CharAt(content, i) = tok THEN i ELSE LastPosition(content, i - 1, tok)

\* re.search(r"```json\s*(.*?)\s*```", content, re.DOTALL): the first opening fence
\* and the first fence after it; group(1) is what lies between, without the
\* whitespace at its ends
FencedMatch(content) ==
    LET open == FirstPosition(content, 0, {"FENCE_JSON"})
        close == FirstPosition(content, open + 1, Fences)
    IN IF open < Len(content) /\ close < Len(content)
       THEN [found |-> TRUE, json_str |-> Strip(Slice(content, open + 1, close))]
       ELSE [found |-> FALSE, json_str |-> <<>>]

\* re.search(r"\{.*\}", content, re.DOTALL): from the first { to the last }
BraceMatch(content) ==
    LET open == FirstPosition(content, 0, {"{"})
        close == LastPosition(content, Len(content) - 1, "}")
    IN IF open < Len(content) /\ close > open
       THEN [found |-> TRUE, json_str |-> Slice(content, open, close + 1)]
       ELSE [found |-> FALSE, json_str |-> <<>>]

\* the token lists json.loads decodes: an object with no member or with the one
\* member, with whitespace anywhere between the tokens
RECURSIVE WithoutSpaces(_)
WithoutSpaces(str) ==
    IF str = <<>> THEN <<>>
    ELSE IF IsSpace(str[1]) THEN WithoutSpaces(Tail(str))
    ELSE <<str[1]>> \o WithoutSpaces(Tail(str))

Decodes(json_str) == WithoutSpaces(json_str) \in {<<"{", "}">>, <<"{", "MEMBER", "}">>}

\* data.get("translated_text", "") of the decoded object
TranslatedTextOf(json_str) ==
    IF WithoutSpaces(json_str) = <<"{", "MEMBER", "}">> THEN <<"b", ".">> ELSE <<>>

\* a parser that gives the empty translation when the block does not decode
ParseLlmResponseEmptyOnDecodeError(content) ==
    LET stripped == Strip(content)
        json_str == IF FencedMatch(stripped).found THEN FencedMatch(stripped).json_str
                    ELSE BraceMatch(stripped).json_str
    IN IF ~FencedMatch(stripped).found /\ ~BraceMatch(stripped).found
       THEN [translation |-> stripped, term_candidates |-> EmptyDict,
             warnings |-> <<"JSON parsing failed, used raw output">>]
       ELSE [translation |-> TranslatedTextOf(json_str), term_candidates |-> EmptyDict,
             warnings |-> IF Decodes(json_str) THEN <<>> ELSE <<"JSON decode error">>]

\* _parse_llm_response
ParseLlmResponse(content) ==
    LET stripped == Strip(content)
        json_str == IF FencedMatch(stripped).found THEN FencedMatch(stripped).json_str
                    ELSE BraceMatch(stripped).json_str
    IN IF ~FencedMatch(stripped).found /\ ~BraceMatch(stripped).found
       THEN [translation |-> stripped, term_candidates |-> EmptyDict,
             warnings |-> <<"JSON parsing failed, used raw output">>]
       ELSE IF Decodes(json_str)
       THEN [translation |-> TranslatedTextOf(json_str), term_candidates |-> EmptyDict,
             warnings |-> <<>>]
       ELSE [translation |-> stripped, term_candidates |-> EmptyDict,
             warnings |-> <<"JSON decode error">>]

\* translate_chunk when the provider answers content: the parsed fields and success
TranslateChunk(content) == [success |-> TRUE] @@ ParseLlmResponse(content)

\* the responses given to translate_chunk
ParseArgs(max_len) ==
    {[op |-> "translate_chunk_args", content |-> c] : c \in ResponseContents(max_len)}

InitParse ==
    /\ InitState
    /\ obs \in ParseArgs(MaxContentLen)

\* translate_chunk on the response drawn, and the VERIFY phase of execute_round on
\* its translation (general preset, both checks on)
TranslateChunkCall ==
    /\ obs.op = "translate_chunk_args"
    /\ \E res \in {TranslateChunk(obs.content)} :
          obs' = [op |-> "translate_chunk", content |-> obs.content, result |-> res,
                  errors |-> Validate(res.translation, <<"x">>,
                                      BuildContextPackage(<<>>, <<>>, <<"x">>, 0),
                                      preset_type, check_sentence, check_length).errors]
    /\ last' = "op"
    /\ UNCHANGED <<stateVars, chunks, runVars, ghostVars, added>>

NextParse == TranslateChunkCall

SpecParse == InitParse /\ [][NextParse]_vars

-----------------------------------------------------------------------------
(* GlossaryManager (glossary_manager.py) *)

\* most chunk indices on the existing entry of a conflict
MaxEntryIndices == 2

\* ConflictResolutionRule, and a configured value outside the enumeration
ConflictResolutionRules ==
    {"preset_first", "document_initial", "majority", "most_recent", "other"}

ManagerSources == {"a", "b"}

ManagerTargets == {"x", "y"}

\* confidences in tenths; 0.0, 0.5 and 1.0 are the ones whose product with 10 is exact
ConflictConfidences == {0, 5, 10}

\* preset_source: None, or the name of a preset
NoPreset == "None"

PresetSources == {NoPreset, "patent"}

\* _find_existing_term's "no entry"
NoEntry == [source |-> "None"]

\* _apply_conflict_resolution_decision; new_confidence is in tenths, so that
\* new_confidence * 10 of the source is new_confidence here
ApplyConflictResolutionDecision(conflict_rule, existing, new_target, new_confidence, preset_source) ==
    IF conflict_rule = "preset_first"
    THEN IF preset_source # NoPreset THEN "update_existing" ELSE "keep_existing"
    ELSE IF conflict_rule = "document_initial"
    THEN IF existing.source_chunk_indices # <<>> THEN "keep_existing"
         ELSE "update_existing"
    ELSE IF conflict_rule = "majority"
    THEN IF Len(existing.source_chunk_indices) >= new_confidence THEN "keep_existing"
         ELSE "update_existing"
    ELSE IF conflict_rule = "most_recent"
    THEN IF existing.source_chunk_indices # <<>> THEN "keep_existing"
         ELSE "update_existing"
    ELSE IF Len(existing.source_chunk_indices) >= new_confidence THEN "keep_existing"
         ELSE "update_existing"

\* GlossaryConflict(term, options, sources, rule_applied)
GlossaryConflict(term, options, sources, rule_applied) ==
    [term |-> term, options |-> options, sources |-> sources,
     rule_applied |-> rule_applied]

\* _resolve_conflict: the decision, the value returned, the entry and the conflict
\* history afterwards. The updating branch assigns existing.target before it builds
\* the conflict, so both options are the new target.
ResolveConflict(conflict_rule, conflict_history, source, existing, new_target, new_confidence, new_chunks, preset_source) ==
    LET decision == ApplyConflictResolutionDecision(conflict_rule, existing, new_target,
                                                    new_confidence, preset_source)
        updated == [existing EXCEPT
                      !.target = new_target,
                      !.confidence = Max(@, new_confidence),
                      !.source_chunk_indices = @ \o new_chunks,
                      !.usage_count = @ + 1]
    IN IF decision = "keep_existing"
       THEN [decision |-> decision, returned |-> FALSE, existing |-> existing,
             conflict_history |->
                 Append(conflict_history,
                        GlossaryConflict(source, <<existing.target, new_target>>,
                                         <<"existing", "new">>, conflict_rule))]
       ELSE [decision |-> decision, returned |-> TRUE, existing |-> updated,
             conflict_history |->
                 Append(conflict_history,
                        GlossaryConflict(source, <<updated.target, new_target>>,
                                         <<"updated", "new">>, conflict_rule))]

\* _find_existing_term: no glossary is searched, the answer is always None
FindExistingTerm(source) == NoEntry

\* add_term: the value returned and the conflict history afterwards; the TermEntry
\* built for a new term is a local that is stored nowhere
AddTerm(conflict_rule, conflict_history, source, target, confidence, source_chunks, is_hard, preset_source) ==
    LET existing == FindExistingTerm(source)
    IN IF existing # NoEntry
       THEN LET res == ResolveConflict(conflict_rule, conflict_history, source, existing,
                                       target, confidence, source_chunks, preset_source)
            IN [returned |-> res.returned, conflict_history |-> res.conflict_history]
       ELSE [returned |-> TRUE, conflict_history |-> conflict_history]

\* the chunk index lists of the model: 0, 1, ... up to a length
IndexLists(max_len) == {[i \in 1..n |-> i - 1] : n \in 0..max_len}

\* the arguments of one _resolve_conflict call on a manager with an empty history
ResolveArgs(max_indices) ==
    {[op |-> "resolve_conflict_args", conflict_rule |-> r, source |-> "a",
      existing |-> NewTermEntry("a", t, c, ix, FALSE),
      new_target |-> nt, new_confidence |-> nc, new_chunks |-> nx,
      preset_source |-> ps] :
        r \in ConflictResolutionRules, t \in ManagerTargets, c \in ConflictConfidences,
        ix \in IndexLists(max_indices), nt \in ManagerTargets, nc \in ConflictConfidences,
        nx \in IndexLists(1), ps \in PresetSources}

InitResolve ==
    /\ InitState
    /\ obs \in {a \in ResolveArgs(MaxEntryIndices) : a.existing.target # a.new_target}

\* GlossaryManager(conflict_rule)._resolve_conflict on the arguments drawn
ResolveConflictCall ==
    /\ obs.op = "resolve_conflict_args"
    /\ \E res \in {ResolveConflict(obs.conflict_rule, <<>>, obs.source, obs.existing,
                                   obs.new_target, obs.new_confidence, obs.new_chunks,
                                   obs.preset_source)} :
          obs' = [op |-> "resolve_conflict", conflict_rule |-> obs.conflict_rule,
                  old |-> obs.existing, new_target |-> obs.new_target,
                  new_confidence |-> obs.new_confidence,
                  preset_source |-> obs.preset_source,
                  decision |-> res.decision, returned |-> res.returned,
                  existing |-> res.existing,
                  conflict_history |-> res.conflict_history]
    /\ last' = "op"
    /\ UNCHANGED <<stateVars, chunks, runVars, ghostVars, added>>

NextResolve == ResolveConflictCall

SpecResolve == InitResolve /\ [][NextResolve]_vars

\* "no target": the manager has reported no term for a source
NoTarget == "None"

\* a GlossaryManager after construction: its rule, its empty conflict history, and
\* (observation) per source the target of the last add_term that returned True
InitManager ==
    /\ InitState
    /\ obs \in {[op |-> "manager", conflict_rule |-> r, conflict_history |-> <<>>,
                 reported |-> [s \in ManagerSources |-> NoTarget]] :
                    r \in ConflictResolutionRules}

\* add_term(source, target, confidence, source_chunks, False, preset_source)
AddTermCall(source, target, confidence, source_chunks, preset_source) ==
    /\ obs.op \in {"manager", "add_term"}
    /\ \E res \in {AddTerm(obs.conflict_rule, obs.conflict_history, source, target,
                           confidence, source_chunks, FALSE, preset_source)} :
          obs' = [op |-> "add_term", conflict_rule |-> obs.conflict_rule,
                  conflict_history |-> res.conflict_history,
                  reported |-> IF res.returned
                               THEN [obs.reported EXCEPT ![source] = target]
                               ELSE obs.reported,
                  source |-> source, target |-> target,
                  held_before |-> obs.reported[source],
                  returned |-> res.returned]
    /\ last' = "op"
    /\ UNCHANGED <<stateVars, chunks, runVars, ghostVars, added>>

NextManager ==
    \E source \in ManagerSources, target \in ManagerTargets, confidence \in ConflictConfidences,
       source_chunks \in IndexLists(1), preset_source \in PresetSources :
        AddTermCall(source, target, confidence, source_chunks, preset_source)

SpecManager == InitManager /\ [][NextManager]_vars

-----------------------------------------------------------------------------
(* text_utils.chunk_text *)

\* longest text given to text_utils.chunk_text
MaxSplitTextLen == 5

\* largest chunk_size given to text_utils.chunk_text
MaxSplitChunkSize == 4

\* how far back the next chunk may start at most (max(end - overlap, end - 50))
MaxStepBack == 50

\* the overlaps of the model: with an overlap the loop of chunk_text starts the next
\* chunk before the end of the last one and can start it where the last one started
SplitOverlaps == {0}

\* the end of the run of line feeds that starts at position i
RECURSIVE LineFeedRunEnd(_, _)
LineFeedRunEnd(text, i) ==
    IF i < Len(text) /\ CharAt(text, i) = "\n" THEN LineFeedRunEnd(text, i + 1) ELSE i

\* the end of the last match of sentence_endings ([.!?...]\s* or \n\n+) that finditer
\* yields from position i on; last_end is the end of the last match before i, 0 if none
RECURSIVE LastSentenceEnding(_, _, _)
LastSentenceEnding(chunk, i, last_end) ==
    IF i >= Len(chunk) THEN last_end
    ELSE IF CharAt(chunk, i) \in SentenceEndChars
    THEN LastSentenceEnding(chunk, WhitespaceRunEnd(chunk, i + 1),
                            WhitespaceRunEnd(chunk, i + 1))
    ELSE IF CharAt(chunk, i) = "\n" /\ i + 1 < Len(chunk) /\ CharAt(chunk, i + 1) = "\n"
    THEN LastSentenceEnding(chunk, LineFeedRunEnd(chunk, i), LineFeedRunEnd(chunk, i))
    ELSE LastSentenceEnding(chunk, i + 1, last_end)

\* chunk.rfind(c): the last position of c, or -1
RECURSIVE RFind(_, _, _)
RFind(chunk, c, to) ==
    IF to <= 0 THEN -1
    ELSE IF CharAt(chunk, to - 1) = c THEN to - 1 ELSE RFind(chunk, c, to - 1)

\* text[a:b] for any a and b: a negative index counts from the end of the text
SliceFrom(text, a, b) ==
    LET lo == IF a < 0 THEN Max(a + Len(text), 0) ELSE Min(a, Len(text))
        hi == IF b < 0 THEN Max(b + Len(text), 0) ELSE Min(b, Len(text))
    IN IF lo >= hi THEN <<>> ELSE SubSeq(text, lo + 1, hi)

\* the end of the chunk that starts at start: the last sentence ending within
\* chunk_size characters, else a line feed or a space in the second half
SplitEnd(text, chunk_size, start) ==
    LET end == Min(start + chunk_size, Len(text))
        chunk == SliceFrom(text, start, end)
        last_match == LastSentenceEnding(chunk, 0, 0)
        last_newline == RFind(chunk, "\n", Len(chunk))
        last_space == RFind(chunk, " ", Len(chunk))
    IN IF ~(end < Len(text)) THEN end
       ELSE IF last_match > 0 THEN start + last_match
       ELSE IF 2 * last_newline > chunk_size THEN start + last_newline + 1
       ELSE IF 2 * last_space > chunk_size THEN start + last_space + 1
       ELSE end

\* where the next chunk starts: start = max(end - overlap, end - 50) if end < len(text)
\* else end
NextStart(text, overlap, end) ==
    IF end < Len(text) THEN Max(end - overlap, end - MaxStepBack) ELSE end

\* the while loop of text_utils.chunk_text
RECURSIVE SplitLoop(_, _, _, _, _)
SplitLoop(text, chunk_size, overlap, start, acc) ==
    IF ~(start < Len(text)) THEN acc
    ELSE LET end == SplitEnd(text, chunk_size, start)
             acc2 == Append(acc, <<start, end, SliceFrom(text, start, end)>>)
             next == NextStart(text, overlap, end)
         IN IF next >= Len(text) THEN acc2
            ELSE SplitLoop(text, chunk_size, overlap, next, acc2)

\* text_utils.chunk_text
TextUtilsChunkText(text, chunk_size, overlap) ==
    IF Len(text) <= chunk_size THEN << <<0, Len(text), text>> >>
    ELSE SplitLoop(text, chunk_size, overlap, 0, <<>>)

\* the arguments of one text_utils.chunk_text call
SplitArgs(max_len, max_size) ==
    {[op |-> "split_args", text |-> t, chunk_size |-> cs, overlap |-> ov] :
        t \in ParaInputTexts(max_len), cs \in 1..max_size, ov \in SplitOverlaps}

InitSplit ==
    /\ InitState
    /\ obs \in SplitArgs(MaxSplitTextLen, MaxSplitChunkSize)

\* text_utils.chunk_text(text, chunk_size, overlap) on the arguments drawn
TextUtilsChunkTextCall ==
    /\ obs.op = "split_args"
    /\ obs' = [op |-> "split", text |-> obs.text, chunk_size |-> obs.chunk_size,
               overlap |-> obs.overlap,
               chunks |-> TextUtilsChunkText(obs.text, obs.chunk_size, obs.overlap)]
    /\ last' = "op"
    /\ UNCHANGED <<stateVars, chunks, runVars, ghostVars, added>>

NextSplit == TextUtilsChunkTextCall

SpecSplit == InitSplit /\ [][NextSplit]_vars

-----------------------------------------------------------------------------
(* the while loop of text_utils.chunk_text, one iteration a step *)

\* largest overlap given to text_utils.chunk_text
MaxOverlap == 2

\* how far below 0 the loop is followed: once start is negative it can go down
\* by the overlap in every iteration, without end
MaxBelowZero == 3

\* the arguments of a text_utils.chunk_text call on a text longer than chunk_size
LoopArgs(max_len, max_size, max_overlap) ==
    UNION {{[op |-> "loop_args", text |-> t, chunk_size |-> cs, overlap |-> ov] :
               t \in {x \in ParaInputTexts(max_len) : Len(x) > cs},
               ov \in 0..max_overlap} : cs \in 1..max_size}

InitLoop ==
    /\ InitState
    /\ obs \in LoopArgs(MaxSplitTextLen, MaxSplitChunkSize, MaxOverlap)

\* chunk_text up to its loop: the text is longer than chunk_size, start = 0
EnterChunkLoop ==
    /\ obs.op = "loop_args"
    /\ obs' = [op |-> "chunk_loop", text |-> obs.text, chunk_size |-> obs.chunk_size,
               overlap |-> obs.overlap, start |-> 0, starts |-> <<>>, ends |-> <<>>,
               returned |-> FALSE]
    /\ last' = "op"
    /\ UNCHANGED <<stateVars, chunks, runVars, ghostVars, added>>

\* one iteration of the loop: a chunk is appended and start moves on; starts and ends
\* are those of the last two chunks appended
ChunkLoopIteration ==
    /\ obs.op = "chunk_loop"
    /\ ~obs.returned
    /\ obs.start < Len(obs.text)
    /\ obs.start >= -MaxBelowZero
    /\ LET end == SplitEnd(obs.text, obs.chunk_size, obs.start)
           next == NextStart(obs.text, obs.overlap, end)
       IN obs' = [obs EXCEPT !.start = next,
                             !.starts = IF @ = <<>> THEN <<obs.start>>
                                        ELSE <<@[Len(@)], obs.start>>,
                             !.ends = IF @ = <<>> THEN <<end>> ELSE <<@[Len(@)], end>>,
                             !.returned = next >= Len(obs.text)]
    /\ last' = "op"
    /\ UNCHANGED <<stateVars, chunks, runVars, ghostVars, added>>

NextLoop ==
    \/ EnterChunkLoop
    \/ ChunkLoopIteration

SpecLoop == InitLoop /\ [][NextLoop]_vars

-----------------------------------------------------------------------------
(* RootOrchestrator._perform_repair on its own *)

\* RepairType
RepairTypes ==
    {"template_reinforce", "glossary_update", "split_chunk", "re_translate",
     "context_adjust"}

\* the state add_chunk leaves when execute_round reaches REPAIR for chunk_index:
\* the histories hold the chunks 0..chunk_index and current_chunk_index is one more
StateAtRepair(chunk_index, original_chunk, translation) ==
    [ch |-> [k \in 1..(chunk_index + 1) |-> original_chunk],
     th |-> [k \in 1..(chunk_index + 1) |-> translation],
     cci |-> chunk_index + 1, cc |-> chunk_index + 1, qfc |-> chunk_index + 1]

\* the arguments of one _perform_repair call of a round, and the provider's answer
RepairArgs(max_chunks) ==
    {[op |-> "perform_repair_args", chunk_index |-> i, original_chunk |-> c,
      translation |-> t, repair_type |-> rt, response |-> r] :
        i \in 0..(max_chunks - 1), c \in ChunkTexts, t \in Translations,
        rt \in RepairTypes, r \in Responses}

InitRepair ==
    /\ InitState
    /\ obs \in RepairArgs(MaxChunks)

\* _perform_repair(chunk_index, original_chunk, translation, validation_result, 0)
\* in the state after add_chunk, validation_result.repair_type being the type drawn
PerformRepairCall ==
    /\ obs.op = "perform_repair_args"
    /\ \E res \in {PerformRepair(obs.chunk_index, obs.original_chunk, obs.translation,
                                 obs.repair_type, 0,
                                 StateAtRepair(obs.chunk_index, obs.original_chunk,
                                               obs.translation),
                                 obs.response)} :
          obs' = [op |-> "perform_repair", chunk_index |-> obs.chunk_index,
                  original_chunk |-> obs.original_chunk,
                  translation |-> obs.translation, repair_type |-> obs.repair_type,
                  response |-> obs.response, calls |-> res.calls,
                  raised |-> res.raised, repaired |-> res.translation]
    /\ last' = "op"
    /\ UNCHANGED <<stateVars, chunks, runVars, ghostVars, added>>

NextRepair == PerformRepairCall

SpecRepair == InitRepair /\ [][NextRepair]_vars

-----------------------------------------------------------------------------
(* EnhancedREPL._select_next_chunk on its own *)

\* longest document given to _select_next_chunk, in chunks
MaxSelectChunks == 3

\* chunk texts and translations with words in common
SelectTexts == {<<"a">>, <<"A", " ", "b">>, <<"b", "b">>}

SelectStrategies == {"sequential", "adaptive", "priority"}

\* a state of a run over the document cks at its chunk cci: set_original_text
\* emptied the histories, and every commit since added one chunk and its translation
SelectArgs(max_chunks) ==
    UNION {{[op |-> "select_args", chunks |-> cks, strategy |-> sg,
             st |-> [ch |-> SubSeq(cks, 1, Len(th)), th |-> th, cci |-> Len(th)]] :
               sg \in SelectStrategies,
               th \in UNION {[1..n -> SelectTexts] : n \in 0..Len(cks)}} :
           cks \in UNION {[1..n -> SelectTexts] : n \in 0..max_chunks}}

InitSelect ==
    /\ InitState
    /\ obs \in SelectArgs(MaxSelectChunks)

\* _select_next_chunk(strategy) in the state drawn
SelectNextChunkCall ==
    /\ obs.op = "select_args"
    /\ obs' = [op |-> "select", chunks |-> obs.chunks, strategy |-> obs.strategy,
               st |-> obs.st,
               result |-> SelectNextChunk(obs.st, obs.chunks, obs.strategy)]
    /\ last' = "op"
    /\ UNCHANGED <<stateVars, chunks, runVars, ghostVars, added>>

NextSelect == SelectNextChunkCall

SpecSelect == InitSelect /\ [][NextSelect]_vars

-----------------------------------------------------------------------------
(* Claims *)

\* the chunk indices of the document
ChunkIndices == 0..(Len(chunks) - 1)

\* chunk i was handed to the sub-translator: a call with its index and its text
Attempted(i) ==
    \E k \in DOMAIN sub_calls : sub_calls[k] = <<i, chunks[i + 1]>>

\* C1: when run_full_translation returns, every chunk index 0..N-1 of the document
\* has been handed to the sub-translator at least once, whatever the provider did.
C1_EveryChunkAttempted ==
    (pc = "returned" /\ has_repl) => \A i \in ChunkIndices : Attempted(i)

\* C2: under the sequential strategy a complete run commits exactly the chunk
\* indices 0, 1, ..., N-1, in that order and each once.
C2_CommitsAllInOrder ==
    (pc = "returned" /\ has_repl) => committed = [k \in 1..Len(chunks) |-> k - 1]

\* C3: chunk_history and translation_history have the same length after any
\* sequence of add_chunk, update_chunk, _save_translation and orchestrator rounds.
C3_HistoriesSameLength ==
    Len(chunk_history) = Len(translation_history)

\* C3 witness: a run has committed a chunk in a round counted as failed, direct calls have
\* added a chunk and replaced a translation
C3_Witness ==
    /\ Len(chunk_history) >= 2
    /\ committed # <<>>
    /\ failed_chunks >= 1
    /\ \E i \in DOMAIN chunk_history :
            chunk_history[i] \in DirectChunkTexts /\ translation_history[i] \in DirectTranslations
    /\ \E i \in DOMAIN chunk_history :
            chunk_history[i] \in ChunkTexts /\ translation_history[i] \in DirectTranslations

\* C4: at every point of every run, completed_chunks + failed_chunks <= total_chunks.
C4_CompletedPlusFailedBounded ==
    completed_chunks + failed_chunks <= total_chunks

\* C5: after any sequence of term mutators, every key s of hard_glossary is a key of
\* confirmed_terms with confirmed_terms[s] = hard_glossary[s].
C5_HardIsConfirmed ==
    \A s \in DOMAIN hard_glossary :
        s \in DOMAIN confirmed_terms /\ confirmed_terms[s] = hard_glossary[s]

\* C6: after any sequence of term mutators and set_glossary calls, no source term is
\* a key of both term_candidates and confirmed_terms.
C6_CandidatesDisjointFromConfirmed ==
    (DOMAIN term_candidates) \cap (DOMAIN confirmed_terms) = {}

\* C7: every reference sign is hard with the same target: reference_signs[s] = t
\* implies hard_glossary[s] = t, also after later hard-term additions on s.
C7_ReferenceSignsAreHard ==
    \A s \in DOMAIN reference_signs :
        s \in DOMAIN hard_glossary /\ hard_glossary[s] = reference_signs[s]

\* C8: after any sequence of add_history_summary calls, history_summaries holds at
\* most max_history_summaries entries, and they are the most recently added
\* summaries in insertion order.
C8_SlidingWindow ==
    /\ Len(history_summaries) <= max_history_summaries
    /\ history_summaries = LastN(added, max_history_summaries)

\* C8 witness: two summaries have been dropped from the front of a full window
C8_Witness ==
    /\ Len(added) = max_history_summaries + 2
    /\ Len(history_summaries) = max_history_summaries
    /\ added[1] # added[3]
    /\ history_summaries[1] = added[3]

\* C9: reset() leaves every glossary tier, both histories, history_summaries and
\* error_chunks empty and every counter (total_chunks, completed_chunks,
\* current_chunk_index, failed_chunks, retry counts) at zero.
C9_ResetClearsEverything ==
    last = "reset" =>
        /\ glossary = EmptyDict
        /\ hard_glossary = EmptyDict
        /\ soft_glossary = EmptyDict
        /\ proper_nouns = EmptyDict
        /\ reference_signs = EmptyDict
        /\ technical_terms = EmptyDict
        /\ term_candidates = EmptyDict
        /\ confirmed_terms = EmptyDict
        /\ chunk_history = <<>>
        /\ translation_history = <<>>
        /\ history_summaries = <<>>
        /\ error_chunks = <<>>
        /\ total_chunks = 0
        /\ completed_chunks = 0
        /\ qf_completed_chunks = 0
        /\ current_chunk_index = 0
        /\ failed_chunks = 0
        /\ retry_count = EmptyDict

\* C10: whatever the provider does, run_full_translation executes at most
\* total_chunks + 10 rounds and eventually returns.
C10_RunTerminatesWithinBound ==
    /\ [](iteration <= total_chunks + SafetyMargin)
    /\ (pc = "running" ~> pc = "returned")

\* C10 witness: a run over two chunks has returned after two rounds, one of them
\* a provider failure
C10_Witness ==
    /\ pc = "returned"
    /\ Len(chunks) = 2
    /\ iteration = 2
    /\ error_count >= 1
    /\ \E k \in DOMAIN error_chunks : error_chunks[k][3][1] = "Translation failed for chunk"

\* the last operation was a round whose VERIFY step found a hard error
RoundWithHardError ==
    /\ obs.op = "round"
    /\ obs.verified
    /\ ~obs.valid
    /\ \E k \in DOMAIN obs.errors : obs.errors[k].severity = "hard"

\* the last round appended its chunk to error_chunks
RecordedFailed ==
    /\ Len(error_chunks) = obs.errors_before + 1
    /\ error_chunks[Len(error_chunks)][1] = obs.chunk_index

\* the translation the last round left in the history for its chunk
CommittedTranslation == translation_history[obs.chunk_index + 1]

\* C11: with max_retries = 0, a round whose translation gets a hard verifier error
\* makes exactly one sub-translator call for that chunk, commits that translation
\* unchanged, and the chunk is recorded as failed in error_chunks.
C11_NoRetryCommitsAndFails ==
    (RoundWithHardError /\ max_retries = 0) =>
        /\ obs.calls = <<<<obs.chunk_index, obs.chunk>>>>
        /\ CommittedTranslation = obs.received
        /\ RecordedFailed

\* C11 witness: with max_retries = 0 a round received a truncated translation
C11_Witness ==
    /\ RoundWithHardError
    /\ max_retries = 0
    /\ obs.received = <<"a", ".", ".", ".">>
    /\ failed_chunks >= 1

\* the committed translation of the last round's chunk still has a hard error
StillInvalid ==
    ~Validate(CommittedTranslation, obs.chunk,
              BuildContextPackage(chunk_history, translation_history, obs.chunk,
                                  obs.chunk_index),
              preset_type, check_sentence, check_length).valid

\* C12: with max_retries = m >= 1, a chunk whose translation has a hard verifier
\* error is repaired and verified again until it passes or m repairs have been made;
\* it is recorded as failed in error_chunks only when the hard error is still there
\* after m repairs, and not when the repaired translation passes verification.
C12_RepairedUntilValidOrExhausted ==
    (RoundWithHardError /\ max_retries >= 1) =>
        /\ StillInvalid => obs.repairs = max_retries
        /\ RecordedFailed <=> StillInvalid

\* the forbidden words and phrases of the state's style guide
ForbiddenOfStyleGuide ==
    {style_guide.forbidden_words[i] : i \in DOMAIN style_guide.forbidden_words}
    \cup {style_guide.forbidden_phrases[i] : i \in DOMAIN style_guide.forbidden_phrases}

\* C13: in an orchestrated round, when the state's style guide lists a forbidden word
\* or phrase and the translation returned for the chunk contains it (compared
\* case-insensitively), verification yields valid = false with a hard error of kind
\* forbidden.
C13_ForbiddenContentIsHardError ==
    (/\ obs.op = "round"
     /\ obs.verified
     /\ \E w \in ForbiddenOfStyleGuide : Contains(Lower(obs.received), Lower(w))) =>
        /\ ~obs.valid
        /\ \E k \in DOMAIN obs.errors :
                obs.errors[k].type = "forbidden" /\ obs.errors[k].severity = "hard"

\* the kinds of the hard errors of a list of errors
HardKinds(errors) ==
    {errors[k].type : k \in {j \in DOMAIN errors : errors[j].severity = "hard"}}

\* C14: for every set of hard errors, the recommended repair_type is
\* template_reinforce if a forbidden error is present, else template_reinforce if a
\* format error is present, else re_translate (completion or any other kind).
C14_RepairFollowsTable ==
    (obs.op \in {"validate", "determine_repair"} /\ HardKinds(obs.errors) # {}) =>
        obs.repair_type =
            IF "forbidden" \in HardKinds(obs.errors) THEN "template_reinforce"
            ELSE IF "format" \in HardKinds(obs.errors) THEN "template_reinforce"
            ELSE "re_translate"

\* C14 witness: a format error and a completion error together give template_reinforce
C14_Witness ==
    /\ obs.op = "determine_repair"
    /\ HardKinds(obs.errors) = {"format", "completion"}
    /\ obs.errors[1].type = "completion"
    /\ obs.repair_type = "template_reinforce"

\* the text, ignoring trailing whitespace, ends with three dots or the ellipsis character
EndsWithEllipsis(t) ==
    LET core == RStrip(t) IN
    \/ (Len(core) >= 3 /\ \A i \in 0..2 : core[Len(core) - i] = ".")
    \/ (Len(core) >= 1 /\ core[Len(core)] = "ELLIPSIS")

\* the result of the last validate call has a hard error of kind completion
HasHardCompletionError ==
    \E k \in DOMAIN obs.errors :
        obs.errors[k].type = "completion" /\ obs.errors[k].severity = "hard"

\* C15: a non-empty translation whose text, ignoring trailing whitespace, ends with
\* '...' or with the ellipsis character gets a hard error of kind completion for every
\* combination of check_sentence and check_length and for every preset.
C15_TruncationAlwaysHardError ==
    (obs.op = "validate" /\ obs.translation # <<>> /\ EndsWithEllipsis(obs.translation)) =>
        HasHardCompletionError

\* C15 witness: three dots followed by a space, both toggles off, subtitle preset
C15_Witness ==
    /\ obs.op = "validate"
    /\ obs.translation = <<"a", ".", ".", ".", " ">>
    /\ ~obs.check_sentence
    /\ ~obs.check_length
    /\ obs.preset = "subtitle"
    /\ HasHardCompletionError
    /\ ~obs.valid

\* the one-character sentence terminators
Terminators == {".", "!", "?", "FW_STOP", "FW_EXCL", "FW_QUES"}

\* the last non-space character of t exists and is not a sentence terminator
LastCharNotTerminator(t) ==
    /\ RStrip(t) # <<>>
    /\ RStrip(t)[Len(RStrip(t))] \notin Terminators

\* the result of the last validate call has the sentence-completion error
HasSentenceError ==
    \E k \in DOMAIN obs.errors :
        obs.errors[k].message = "Translation does not end with complete sentence"

\* C16, as stated: with check_sentence = true a translation longer than 50 characters
\* whose last non-space character is not a sentence terminator gets a hard error of
\* kind completion; with check_sentence = false it gets no sentence-completion
\* error, and a translation of at most 50 characters never gets one.
C16_SentenceRuleAsStated ==
    obs.op = "validate" =>
        /\ (/\ obs.check_sentence
            /\ Len(obs.translation) > SentenceMinLen
            /\ LastCharNotTerminator(obs.translation)) => HasHardCompletionError
        /\ ~obs.check_sentence => ~HasSentenceError
        /\ Len(obs.translation) <= SentenceMinLen => ~HasSentenceError

\* C16, amended: the 50 characters are counted without the trailing whitespace.
C16_SentenceRuleOnStrippedLength ==
    obs.op = "validate" =>
        /\ (/\ obs.check_sentence
            /\ Len(RStrip(obs.translation)) > SentenceMinLen
            /\ LastCharNotTerminator(obs.translation)) =>
                (HasHardCompletionError /\ HasSentenceError)
        /\ ~obs.check_sentence => ~HasSentenceError
        /\ Len(RStrip(obs.translation)) <= SentenceMinLen => ~HasSentenceError

\* C16 witness: 51 letters and a line feed, check_sentence on, only the sentence error
C16_Witness ==
    /\ obs.op = "validate"
    /\ obs.check_sentence
    /\ obs.translation = Repeat("a", SentenceMinLen + 1) \o <<"\n">>
    /\ HasSentenceError
    /\ Len(obs.errors) = 1

\* dict d is dict e outside the key k
SameExcept(d, e, k) ==
    /\ (DOMAIN d) \ {k} = (DOMAIN e) \ {k}
    /\ \A x \in (DOMAIN d) \ {k} : d[x] = e[x]

\* C17: update_glossary(s, t, force=true) sets confirmed_terms[s] = t and removes s
\* from term_candidates while leaving every other candidate and every other confirmed
\* term unchanged; update_glossary(s, t, force=false) on an already confirmed s
\* changes nothing.
C17_UpdateGlossaryFrame ==
    obs.op = "update_glossary" =>
        /\ obs.force =>
            /\ obs.source \in DOMAIN confirmed_terms
            /\ confirmed_terms[obs.source] = obs.target
            /\ obs.source \notin DOMAIN term_candidates
            /\ SameExcept(confirmed_terms, obs.confirmed, obs.source)
            /\ SameExcept(term_candidates, obs.candidates, obs.source)
        /\ (~obs.force /\ obs.source \in DOMAIN obs.confirmed) =>
            /\ confirmed_terms = obs.confirmed
            /\ term_candidates = obs.candidates

\* C17 witness: a forced update replaced the target of a confirmed term that was also
\* a candidate, next to another candidate and another confirmed term
C17_Witness ==
    /\ obs.op = "update_glossary"
    /\ obs.force
    /\ obs.source \in DOMAIN obs.candidates
    /\ obs.source \in DOMAIN obs.confirmed
    /\ obs.confirmed[obs.source] # obs.target
    /\ (DOMAIN term_candidates) \ {obs.source} # {}
    /\ (DOMAIN confirmed_terms) \ {obs.source} # {}

\* C18: after add_glossary_entry(s, t, is_hard=is_hard) on a fresh state,
\* get_context_package() contains the pair (s, t) in its hard_glossary if and only if
\* is_hard is true.
C18_HardEntryInContextPackage ==
    (obs.op = "add_glossary_entry" /\ obs.fresh) =>
        ((/\ obs.source \in DOMAIN GetContextPackage.hard_glossary
          /\ GetContextPackage.hard_glossary[obs.source] = obs.target)
         <=> obs.is_hard)

\* the elements of a list
Elements(lst) == {lst[i] : i \in DOMAIN lst}

\* no element of the list appears twice
NoDuplicates(lst) == \A i, j \in DOMAIN lst : lst[i] = lst[j] => i = j

\* C19: add_glossary_entry on a source that already has an entry replaces the target,
\* sets confidence to the maximum of the old and new confidence, sets
\* source_chunk_indices to the set union of the old and new indices (no index appears
\* twice), and increases usage_count by exactly one.
C19_UpsertMergesEntry ==
    (obs.op = "add_glossary_entry" /\ obs.existed) =>
        LET old == obs.before[obs.source]
            new == glossary[obs.source]
        IN /\ new.target = obs.target
           /\ new.confidence = Max(old.confidence, obs.confidence)
           /\ Elements(new.source_chunk_indices) =
                Elements(old.source_chunk_indices) \cup Elements(obs.indices)
           /\ NoDuplicates(old.source_chunk_indices) =>
                NoDuplicates(new.source_chunk_indices)
           /\ new.usage_count = old.usage_count + 1

\* position p of the text lies inside one of the chunks returned
Covered(p) ==
    \E k \in DOMAIN obs.chunks : obs.chunks[k][1] <= p /\ p < obs.chunks[k][2]

\* C20: for every input text, chunk size and overlap, the chunks returned by
\* chunk_text cover the input: every non-whitespace character position of the text
\* lies inside at least one returned chunk.
C20_ChunksCoverText ==
    obs.op = "chunk_text" =>
        \A p \in 0..(Len(obs.text) - 1) :
            ~IsSpace(CharAt(obs.text, p)) => Covered(p)

\* the large paragraphs chunk_by_paragraph met, by position in its record
LargeParagraphs == 1..Len(obs.large)

\* C21: a paragraph longer than chunk_size gets exactly one warning, and every
\* chunk made from it is at most chunk_size long
C21_LargeParagraphSplitWithinSize ==
    obs.op = "chunk_by_paragraph" =>
        /\ Len(obs.warnings) = Len(obs.large)
        /\ \A i \in LargeParagraphs :
              /\ Len(obs.large[i].paragraph) > obs.chunk_size
              /\ \A j \in 1..Len(obs.large[i].chunks) :
                    Len(obs.large[i].chunks[j]) <= obs.chunk_size

\* the paragraphs of the chunks in chunk order: each chunk's text split again
RECURSIVE ParagraphsOfChunks(_)
ParagraphsOfChunks(cs) ==
    IF cs = <<>> THEN <<>>
    ELSE StrippedNonEmpty(SplitParagraphs(cs[1][3])) \o ParagraphsOfChunks(Tail(cs))

\* C22: when no paragraph exceeds chunk_size, every chunk is at most chunk_size long
\* and the chunks' paragraphs, in chunk order, are the input's paragraphs
C22_ParagraphsKeptWithinSize ==
    (/\ obs.op = "chunk_by_paragraph"
     /\ obs.large = <<>>) =>
        /\ \A j \in 1..Len(obs.chunks) :
              /\ Len(obs.chunks[j][3]) <= obs.chunk_size
              /\ obs.chunks[j][2] - obs.chunks[j][1] = Len(obs.chunks[j][3])
        /\ ParagraphsOfChunks(obs.chunks) = StrippedNonEmpty(SplitParagraphs(obs.text))

\* two paragraphs, neither too large, shared the first chunk
C22_Witness ==
    /\ obs.op = "chunk_by_paragraph"
    /\ obs.large = <<>>
    /\ Len(obs.chunks) >= 1
    /\ Len(StrippedNonEmpty(SplitParagraphs(obs.chunks[1][3]))) = 2

\* the cues of the file given to _translate_srt
InputCues == ParseSrt(obs.text)

\* ceil(n / batch_size)
CeilOfBatches(n) == (n + batch_size - 1) \div batch_size

\* C23: a subtitle file of N cues costs ceil(N/10) provider calls and comes back
\* as N cues with the indices and timestamps of the input, chunks_count = N
C23_SrtKeepsCues ==
    (/\ obs.op = "translate_srt"
     /\ obs.at = "returned") =>
        LET N == Len(InputCues)
            out == ParseSrt(obs.translated_text)
        IN /\ obs.calls = CeilOfBatches(N)
           /\ obs.chunks_count = N
           /\ Len(out) = N
           /\ \A k \in 1..Min(N, Len(out)) :
                 /\ out[k].index = InputCues[k].index
                 /\ out[k].start = InputCues[k].start
                 /\ out[k].end = InputCues[k].end

\* C24: once the cancel is signalled, nothing more is committed to
\* translation_history, no further provider call is made and the commits made
\* before stay
C24_CancelStopsTheRun ==
    [][pc = "terminating" =>
          /\ translation_history' = translation_history
          /\ sub_calls' = sub_calls]_vars

\* the step is a round whose TRANSLATE call failed: the provider was called once
\* and the round came back with the error
ProviderFailedRound ==
    /\ obs'.op = "round"
    /\ obs'.has_error

\* what a round with a failed TRANSLATE call does, apart from whether the run
\* goes on: the result is neither a success nor "completed", the histories, the
\* chunk pointer, the completed counter and the summaries are untouched, and
\* error_chunks gets exactly one more entry
FailedRoundRecorded ==
    /\ ~obs'.success
    /\ ~obs'.completed
    /\ Len(obs'.calls) = 1
    /\ chunk_history' = chunk_history
    /\ translation_history' = translation_history
    /\ current_chunk_index' = current_chunk_index
    /\ completed_chunks' = completed_chunks
    /\ history_summaries' = history_summaries
    /\ Len(error_chunks') = Len(error_chunks) + 1
    /\ SubSeq(error_chunks', 1, Len(error_chunks)) = error_chunks

NoDecodableBlock(content) ==
    LET c == Strip(content) IN
    IF FencedMatch(c).found THEN ~Decodes(FencedMatch(c).json_str)
    ELSE IF BraceMatch(c).found THEN ~Decodes(BraceMatch(c).json_str)
    ELSE TRUE

\* the verifier's errors are those of the text alone: none unless the text is empty
\* or ends in a truncation marker
OnlyErrorsOfTheText(translation, errors) ==
    /\ \A k \in 1..Len(errors) : errors[k].type = "completion"
    /\ errors # <<>> => (Strip(translation) = <<>> \/ Truncated(translation))

\* C26 as stated: a response without a decodable block comes back as a success
\* whose translation is the raw response, with no term candidates and a warning,
\* and the verifier holds nothing against the parse failure
C26_ParseFailureFallsBackToRaw ==
    (/\ obs.op = "translate_chunk"
     /\ NoDecodableBlock(obs.content)) =>
        /\ obs.result.success
        /\ obs.result.translation = obs.content
        /\ obs.result.term_candidates = EmptyDict
        /\ obs.result.warnings # <<>>
        /\ OnlyErrorsOfTheText(obs.result.translation, obs.errors)

\* C26: the same with the translation being the response without the whitespace
\* at its ends
C26_ParseFailureFallsBackToStripped ==
    (/\ obs.op = "translate_chunk"
     /\ NoDecodableBlock(obs.content)) =>
        /\ obs.result.success
        /\ obs.result.translation = Strip(obs.content)
        /\ obs.result.term_candidates = EmptyDict
        /\ obs.result.warnings # <<>>
        /\ OnlyErrorsOfTheText(obs.result.translation, obs.errors)

\* a fenced block that does not decode came back as the text of the response
C26_Witness ==
    /\ obs.op = "translate_chunk"
    /\ FencedMatch(Strip(obs.content)).found
    /\ ~Decodes(FencedMatch(Strip(obs.content)).json_str)
    /\ obs.result.translation = Strip(obs.content)
    /\ obs.result.warnings = <<"JSON decode error">>
    /\ obs.errors = <<>>

\* C27: under the most_recent rule a conflicting proposal is resolved in favour of
\* the new (last written) target, whether the existing entry has source chunk
\* indices or not: _resolve_conflict decides to update and the entry holds the
\* new target afterwards.
C27_MostRecentAdoptsNew ==
    (obs.op = "resolve_conflict" /\ obs.conflict_rule = "most_recent")
        => /\ obs.decision = "update_existing"
           /\ obs.existing.target = obs.new_target

\* the set of the options of a conflict
OptionsOf(conflict) == {conflict.options[k] : k \in DOMAIN conflict.options}

\* C28: no proposal is lost: whenever add_term proposes for a source a target
\* different from the one the manager reported as added before, the conflict log
\* holds an event of that source whose options contain both targets.
C28_NoProposalLost ==
    (obs.op = "add_term" /\ obs.held_before # NoTarget /\ obs.held_before # obs.target)
        => \E k \in DOMAIN obs.conflict_history :
              /\ obs.conflict_history[k].term = obs.source
              /\ {obs.held_before, obs.target} \subseteq OptionsOf(obs.conflict_history[k])

\* a run over a document of zero chunks has returned: it made no sub-translator
\* call, counted no error (its result says success) and committed no translation
\* (get_final_result joins to the empty string)
ZeroChunkRunIsEmptySuccess ==
    (pc = "returned" /\ has_repl /\ chunks = <<>>)
        => /\ sub_calls = <<>>
           /\ error_count = 0
           /\ translation_history = <<>>

\* C29: empty input produces zero chunks (text_utils.chunk_text; ChunkingStrategy's
\* chunk_text returns the empty list by its first test), so that the run over it
\* makes no sub-translator call and ends with success and an empty translation.
C29_EmptyInputNoChunks ==
    (obs.op = "split" /\ obs.text = <<>>) => obs.chunks = <<>>

\* C30: a non-empty input of at most chunk_size characters, whatever sentences it
\* holds, becomes exactly one chunk (ChunkingStrategy.chunk_text), hence one
\* TRANSLATE call of the run over the chunks.
C30_ShortInputOneChunk ==
    (obs.op = "chunk_text" /\ obs.text # <<>> /\ Len(obs.text) <= obs.chunk_size)
        => Len(obs.chunks) = 1

\* the calls of this run made with chunk index i
CallsFor(i) == {k \in DOMAIN sub_calls : sub_calls[k][1] = i}

\* C31: over a whole run the sub-translator is called at most 1 + max_retries times
\* for any single chunk index, also when the provider fails on that chunk.
C31_CallsPerChunkBounded ==
    \A i \in 0..MaxChunks : Cardinality(CallsFor(i)) <= 1 + max_retries

\* retry_count[key], 0 for a key that was never counted
RetryCountOf(rc, key) == IF key \in DOMAIN rc THEN rc[key] ELSE 0

\* the round just made held a repair whose provider call succeeded
RepairSucceeded(o) == o.op = "round" /\ o.verified /\ o.incremented

\* C32: each successful repair increments the retry counter of its key by one, so
\* that after k repairs of a run the counter is k.
C32_RepairIncrementsRetryCount ==
    [][RepairSucceeded(obs')
          => RetryCountOf(retry_count', "format_error")
                 = RetryCountOf(retry_count, "format_error") + 1]_vars

\* _perform_repair went to the provider for a template_reinforce repair
Reinforced ==
    /\ obs.op = "perform_repair"
    /\ obs.repair_type = "template_reinforce"
    /\ obs.calls # <<>>

\* C33: a template_reinforce repair of chunk i calls the sub-translator again with
\* the previous translation as input text and with chunk index i, the index the
\* round selected and commits to.
C33_ReinforceKeepsChunkIndex ==
    Reinforced => obs.calls = <<<<obs.chunk_index, obs.translation>>>>

\* the round just made went to the provider for a repair, and the provider failed
RepairFailed ==
    /\ obs.op = "round" /\ obs.verified
    /\ obs.repairs = 1 /\ ~obs.incremented

\* C36: when the provider call of a repair fails, the translation committed for
\* the chunk is the one held before the repair (the one TRANSLATE received).
C36_FailedRepairKeepsTranslation ==
    RepairFailed => translation_history[obs.chunk_index + 1] = obs.received

\* C34: after a round that committed a chunk, every term candidate of the
\* sub-translator's response whose source is not a confirmed term is in the
\* state's term_candidates.
C34_CandidatesReachTheState ==
    (obs.op = "round" /\ obs.verified)
        => \A s \in DOMAIN obs.candidates :
              s \notin DOMAIN confirmed_terms
                  => /\ s \in DOMAIN term_candidates
                     /\ term_candidates[s] = obs.candidates[s]

\* the most recently committed translation of the state of obs, "" if none
LastCommitted ==
    IF obs.st.th = <<>> THEN <<>> ELSE obs.st.th[Len(obs.st.th)]

\* the similarity of chunk i of obs to the most recently committed translation
SimilarityOf(i) == ComputeSimilarity(LastCommitted, obs.chunks[i + 1])

\* the chunk indices that remain in the state of obs
Remaining == obs.st.cci..(Len(obs.chunks) - 1)

\* C35: _select_next_chunk('adaptive') returns None exactly when no chunk remains;
\* otherwise it returns a remaining index of highest similarity to the most
\* recently committed translation, the lowest one on ties.
C35_AdaptivePicksMostSimilar ==
    (obs.op = "select" /\ obs.strategy = "adaptive")
        => /\ ~obs.result.raised
           /\ obs.result.index = NoChunk <=> Remaining = {}
           /\ Remaining # {}
                => /\ obs.result.index \in Remaining
                   /\ \A j \in Remaining :
                         /\ ~GreaterSim(SimilarityOf(j), SimilarityOf(obs.result.index))
                         /\ j < obs.result.index
                               => GreaterSim(SimilarityOf(obs.result.index),
                                             SimilarityOf(j))

\* the histories follow the chunk plan: as many chunks as current_chunk_index and
\* completed_chunks say, at most total_chunks, each the text of the planned chunk
HistoriesFollowPlan ==
    /\ Len(chunk_history) = current_chunk_index
    /\ current_chunk_index = completed_chunks
    /\ completed_chunks <= total_chunks
    /\ \A k \in DOMAIN chunk_history : chunk_history[k] = chunks[k]

\* a step keeps every translation that was in translation_history before it
KeepsEarlierTranslations ==
    \A k \in DOMAIN translation_history :
        /\ k \in DOMAIN translation_history'
        /\ translation_history'[k] = translation_history[k]

\* C37: at every point of a run the histories are index-aligned with the chunk
\* plan, and the round that commits chunk i changes translation_history at
\* position i only.
C37_HistoriesAlignedWithPlan ==
    /\ [](pc \in {"running", "returned"} /\ has_repl => HistoriesFollowPlan)
    /\ [][(pc = "running" /\ pc' \in {"running", "returned"})
             => KeepsEarlierTranslations]_vars

\* C37 witness: a run has committed both chunks of a document, one after the other
C37_Witness ==
    /\ pc = "returned"
    /\ committed = <<0, 1>>
    /\ Len(translation_history) = 2

\* the round just made appended an entry to error_chunks after selecting a chunk
ErrorRecorded ==
    /\ obs.op = "round"
    /\ Len(error_chunks) > obs.errors_before
    /\ obs.calls # <<>>

\* C38: every entry that run_full_translation appends to error_chunks carries the
\* index of the chunk that was selected in the round that failed.
C38_ErrorEntryNamesFailedChunk ==
    ErrorRecorded => error_chunks[Len(error_chunks)][1] = obs.calls[1][1]

\* C39: text_utils.chunk_text terminates on every text longer than chunk_size: each
\* chunk's start offset is non-negative and strictly greater than the start of the
\* chunk before it.
C39_ChunkStartsIncrease ==
    obs.op = "chunk_loop"
        => /\ \A k \in DOMAIN obs.starts : obs.starts[k] >= 0
           /\ Len(obs.starts) = 2 => obs.starts[2] > obs.starts[1]

\* C40: for every input to Verifier.validate, with LLM validation on or off,
\* valid = false if and only if errors is non-empty if and only if repair_type is
\* set; warnings alone never make a result invalid or set a repair type.
C40_InvalidIffErrorsIffRepair ==
    obs.op = "validation"
        => /\ ~obs.valid <=> obs.errors # <<>>
           /\ obs.errors # <<>> <=> obs.repair_type # "none"
           /\ obs.errors = <<>> /\ obs.warnings # <<>>
                  => obs.valid /\ obs.repair_type = "none"

\* C40 witness: a validation with LLM validation on that ended with warnings and no
\* error
C40_Witness ==
    /\ obs.op = "validation"
    /\ obs.enable_llm_validation
    /\ obs.warnings # <<>>
    /\ obs.errors = <<>>
    /\ obs.valid

=============================================================================
